---- MODULE Spec2Model ----
(***************************************************************************)
(* ESPHome native API server (src/src/esphome_api.c): the session registry *)
(* (clients[], clients_mutex), the per-session send guard (send_mutex),    *)
(* the BLE advertisement batch (ble_batch, batch_mutex, last_flush), the   *)
(* flush thread, the listen thread, the per-connection threads and the     *)
(* external callers of esphome_api_queue_ble_advert.                       *)
(*                                                                         *)
(* Threads take one step per lock acquisition or shared access; the code   *)
(* between two such points is one step.                                    *)
(***************************************************************************)
EXTENDS Integers, Sequences, FiniteSets, TLC

(* ---------------- program constants ---------------- *)
ESPHOME_MAX_CLIENTS == 2
ESPHOME_MAX_ADV_BATCH == 16
ESPHOME_MAX_MESSAGE_SIZE == 4096
BATCH_FLUSH_INTERVAL_MS == 100
RECV_BUFFER_SIZE == 4096

ESPHOME_MSG_HELLO_REQUEST == 1
ESPHOME_MSG_HELLO_RESPONSE == 2
ESPHOME_MSG_CONNECT_REQUEST == 3
ESPHOME_MSG_CONNECT_RESPONSE == 4
ESPHOME_MSG_DISCONNECT_REQUEST == 5
ESPHOME_MSG_PING_REQUEST == 7
ESPHOME_MSG_PING_RESPONSE == 8
ESPHOME_MSG_DEVICE_INFO_REQUEST == 9
ESPHOME_MSG_DEVICE_INFO_RESPONSE == 10
ESPHOME_MSG_LIST_ENTITIES_REQUEST == 11
ESPHOME_MSG_LIST_ENTITIES_DONE_RESPONSE == 19
ESPHOME_MSG_SUBSCRIBE_STATES_REQUEST == 20
ESPHOME_MSG_SUBSCRIBE_HOMEASSISTANT_SERVICES_REQUEST == 34
ESPHOME_MSG_SUBSCRIBE_HOMEASSISTANT_STATES_REQUEST == 38
ESPHOME_MSG_SUBSCRIBE_BLUETOOTH_LE_ADVERTISEMENTS_REQUEST == 66
ESPHOME_MSG_BLUETOOTH_LE_RAW_ADVERTISEMENTS_RESPONSE == 93

(* ---------------- bounds of the model ---------------- *)
\* calls of esphome_api_queue_ble_advert by the two concurrent callers of
\* the batch-queue specification
MaxAdverts == 33
\* clock steps (of TickMs each) the batch-queue specification lets pass
MaxTicks == 3
\* connections accepted, calls of enqueue and clock steps in the server
\* specification
MaxConns == 3
MaxAdvertsMain == 2
MaxTicksMain == 2
\* connections accepted, calls of enqueue, clock steps and replies on the
\* observed connection in the handshake specification
MaxConnsE2E == 1
MaxAdvertsE2E == 1
MaxTicksE2E == 2
MaxReplies == 2
\* connections accepted, calls of enqueue and clock steps in the fair
\* specification
MaxConnsLive == 2
MaxAdvertsLive == 1
MaxTicksLive == 2
\* frames a peer's script holds, and the sizes in bytes of a short recv, in
\* the receive specification
MaxFrames == 2
MaxChunk == 3
\* connections accepted, advertisements heard, clock steps and frames
\* dispatched in the dispatch specification
MaxConnsDispatch == 1
MaxAdvertsDispatch == 1
MaxTicksDispatch == 2
MaxDispatch == 2
\* advertisements heard and clock steps in the broadcast specification
MaxAdvertsBroadcast == 2
MaxTicksBroadcast == 2
\* connections, advertisements heard and clock steps in the slot reuse
\* specification
MaxConnsReuse == 2
MaxAdvertsReuse == 1
MaxTicksReuse == 2
MaxAdvertsDrop == 35
MaxTicksDrop == 2
MaxAdvertsFifo == 18
MaxTicksFifo == 3
MaxAdvertsTimer == 2
MaxTicksTimer == 6
MaxAdvertsMac == 1
MaxAdvertsStop == 1
MaxTicksStop == 4

(* ---------------- names ---------------- *)
Slots == 0 .. (ESPHOME_MAX_CLIENTS - 1)
Producers == {"p1", "p2"}
FlushCallers == Producers \cup {"timer"}
ClientThread(i) == IF i = 0 THEN "c0" ELSE "c1"
Threads == FlushCallers \cup {"listen"} \cup {ClientThread(i) : i \in Slots}
NoThread == "none"

VARIABLES
    running,        \* server->running
    clients,        \* server->clients[i]: fd, authenticated, subscribed_ble, thread_running
    clients_mutex,  \* holder of server->clients_mutex
    send_mutex,     \* holder of clients[i].send_mutex
    batch_mutex,    \* holder of server->batch_mutex
    count,          \* server->ble_batch.count
    adverts,        \* server->ble_batch.advertisements[0 .. count-1]
    last_flush,     \* server->last_flush (struct timespec)
    now,            \* CLOCK_MONOTONIC, in ms
    pc,             \* position of each producer and of the flush thread
    fl_i,           \* flush_ble_batch: loop index i
    fl_buf,         \* flush_ble_batch: the batch encoded into encode_buf
    fl_ret,         \* flush_ble_batch: where the call returns to
    wake,           \* flush thread: end of its usleep
    t_now,          \* flush thread: the local now
    t_last,         \* flush thread: last_flush as read
    lpc,            \* position of the listen thread
    l_fd,           \* listen thread: client_fd
    l_slot,         \* listen thread: slot
    cpc,            \* position of the thread of each slot
    c_reply,        \* client thread: the message its handler sends
    nextConn,       \* connections accepted so far; the k-th connection is fd k
    closed,         \* connections the server has closed
    assigned,       \* connections that were given a slot
    wire,           \* per observed connection: the send() calls made on it
    nextAdv,        \* calls of esphome_api_queue_ble_advert so far
    nStored,        \* stores made by these calls; the k-th advertisement stored is k
    first_ms,       \* clock when advertisements[0] of the current batch was stored
    heard,          \* <<k, c>>: connection c was subscribed when k was stored
    flushedIds,     \* advertisements that were part of an encoded batch
    dupFlushed,     \* advertisements that were part of two encoded batches
    dropped,        \* advertisements of a batch dropped by an encode failure
    maxIdx,         \* highest index of advertisements[] written so far
    recv_pos,       \* clients[i].recv_pos
    recv_buffer,    \* clients[i].recv_buffer[0 .. recv_pos-1]
    stream,         \* per connection observed byte by byte: the bytes its peer
                    \* has sent and recv has not returned yet
    script,         \* per such connection: the frames its peer set out to send
    inbox,          \* per observed connection: the calls of dispatch_message
    mac,            \* advert->address of the calls of esphome_api_queue_ble_advert
    address,        \* pb_adv->address of the entry stored last (uint64_t, as
                    \* its 8 bytes, the most significant first)
    spc,            \* position of the caller of esphome_api_stop
    s_i,            \* esphome_api_stop: loop index i
    listen_fd       \* server->listen_fd

batchVars == <<count, adverts, last_flush>>
histVars == <<nextAdv, nStored, first_ms, heard, flushedIds, dupFlushed, dropped, maxIdx>>
flushVars == <<fl_i, fl_buf, fl_ret>>
timerVars == <<wake, t_now, t_last>>
mutexVars == <<clients_mutex, send_mutex, batch_mutex>>
listenVars == <<lpc, l_fd, l_slot, nextConn>>
connVars == <<closed, assigned>>
clientVars == <<cpc, c_reply>>
recvVars == <<recv_pos, recv_buffer, stream, script, inbox>>
macVars == <<mac, address>>
stopVars == <<spc, s_i, listen_fd>>
vars == <<running, clients, mutexVars, batchVars, now, pc, flushVars,
          timerVars, listenVars, connVars, clientVars, wire, histVars, recvVars,
          macVars, stopVars>>

(* ---------------- time ---------------- *)
\* one step of the clock, in ms
TickMs == BATCH_FLUSH_INTERVAL_MS \div 2
\* the clock at construction: close to a second boundary, so that tv_nsec
\* of a later reading is below tv_nsec of an earlier one
StartMs == 1000 - TickMs

\* clock_gettime(CLOCK_MONOTONIC, &ts) at clock value ms
clock_gettime(ms) == [tv_sec |-> ms \div 1000, tv_nsec |-> (ms % 1000) * 1000000]

\* C's integer division: truncation toward zero
CDiv(a, b) == IF a >= 0 THEN a \div b ELSE -((-a) \div b)

\* flush_thread_func: the value assigned to elapsed_ms, before its conversion
\* to uint64_t
elapsed_ms(n, l) ==
    (n.tv_sec - l.tv_sec) * 1000 + CDiv(n.tv_nsec - l.tv_nsec, 1000000)

\* the comparison with > in place of >=
FlushDue_Strict(e) == e < 0 \/ e > BATCH_FLUSH_INTERVAL_MS

\* the comparison with the interval in microseconds, as usleep takes it
FlushDue_Micros(e) == e < 0 \/ e >= BATCH_FLUSH_INTERVAL_MS * 1000

\* (uint64_t)e >= BATCH_FLUSH_INTERVAL_MS: a negative e converts to a value
\* of at least 2^63
FlushDue(e) == e < 0 \/ e >= BATCH_FLUSH_INTERVAL_MS

(* ---------------- the batch ---------------- *)
\* upper bound of one encoded advertisement: tag and length of the nested
\* message, address (48 bits as varint), rssi (zigzag), address_type, data
AdvEncodedMax == 2 + 8 + 3 + 2 + 64

\* esphome_encode_ble_advertisements into a buffer of size bytes: the
\* encoded length, 0 when the batch does not fit
esphome_encode_ble_advertisements(size, n) ==
    IF n * AdvEncodedMax > size THEN 0 ELSE n * AdvEncodedMax

\* the value of ble_batch.count after a store at advertisements[idx] with
\* idx >= ESPHOME_MAX_ADV_BATCH: the store lands on the fields that follow
\* the array (count first), so count is whatever the advertisement's bytes
\* and the increment leave there
CorruptCounts == (1 .. (ESPHOME_MAX_ADV_BATCH + 1)) \cup {ESPHOME_MAX_MESSAGE_SIZE}

\* the entries read from the last one stored to the first
Entries_Reversed(es, n) ==
    [k \in 1 .. (IF n < ESPHOME_MAX_ADV_BATCH + 1 THEN n ELSE ESPHOME_MAX_ADV_BATCH + 1) |->
        IF n + 1 - k <= Len(es) /\ n + 1 - k >= 1 THEN es[n + 1 - k] ELSE 0]

\* advertisements[0 .. n-1] read from the array holding the entries es: an
\* entry not written since the last clear, or past the array, reads as 0
Entries(es, n) ==
    [k \in 1 .. (IF n < ESPHOME_MAX_ADV_BATCH + 1 THEN n ELSE ESPHOME_MAX_ADV_BATCH + 1) |->
        IF k <= Len(es) THEN es[k] ELSE 0]

Range(s) == {s[k] : k \in 1 .. Len(s)}
Ids(s) == Range(s) \ {0}

\* the observed connections that occupy a slot and are subscribed
Listening ==
    {clients[i].fd : i \in {j \in Slots : clients[j].fd >= 0 /\ clients[j].subscribed_ble}}
        \cap DOMAIN wire

(* ---------------- mutexes ---------------- *)
Free(m) == m = NoThread

(* ---------------- mac_to_uint64 ---------------- *)
\* a uint64_t as its 8 bytes, the most significant first
Zero64 == [k \in 1 .. 8 |-> 0]

\* (uint64_t)b for a uint8_t b
U64Of(b) == [k \in 1 .. 8 |-> IF k = 8 THEN b ELSE 0]

\* x << s for a uint64_t x and a shift s that is a multiple of 8: the bytes
\* move up by s / 8 places, those moved past the top are lost
Shl64(x, s) == [k \in 1 .. 8 |-> IF k + s \div 8 <= 8 THEN x[k + s \div 8] ELSE 0]

\* a | b for two bytes
RECURSIVE BitOr(_, _)
BitOr(a, b) ==
    IF a = 0 THEN b
    ELSE IF b = 0 THEN a
    ELSE (IF a % 2 = 1 \/ b % 2 = 1 THEN 1 ELSE 0) + 2 * BitOr(a \div 2, b \div 2)

\* x | y for two uint64_t
Or64(x, y) == [k \in 1 .. 8 |-> BitOr(x[k], y[k])]

\* lines 74-76: the loop, from index i on (m[i + 1] is mac[i])
RECURSIVE PackFrom(_, _, _)
PackFrom(m, i, result) ==
    IF i >= 6 THEN result
    ELSE PackFrom(m, i + 1, Or64(result, Shl64(U64Of(m[i + 1]), (5 - i) * 8)))

\* the packing with mac[0] in the least significant byte
mac_to_uint64_LowFirst(m) ==
    Or64(Or64(Or64(Shl64(U64Of(m[1]), 0), Shl64(U64Of(m[2]), 8)),
              Or64(Shl64(U64Of(m[3]), 16), Shl64(U64Of(m[4]), 24))),
         Or64(Shl64(U64Of(m[5]), 32), Shl64(U64Of(m[6]), 40)))

\* lines 69-79
mac_to_uint64(m) == PackFrom(m, 0, Zero64)

\* the address of the sample advertisement, AA:BB:CC:DD:EE:FF
SampleMac == <<170, 187, 204, 221, 238, 255>>

(* ---------------- esphome_api_queue_ble_advert ---------------- *)
\* a caller enters with an advertisement (line 755: both pointers set)
EnqCall(p, maxAdv) ==
    /\ pc[p] = "idle"
    /\ nextAdv < maxAdv
    /\ nextAdv' = nextAdv + 1
    /\ pc' = [pc EXCEPT ![p] = "e_lock"]
    /\ UNCHANGED <<recvVars, running, stopVars, macVars, clients, mutexVars, batchVars, now, flushVars,
                   timerVars, listenVars, connVars, clientVars, wire, nStored,
                   first_ms, heard, flushedIds, dupFlushed, dropped, maxIdx>>

\* lines 759-765: lock; a full batch: unlock and call flush_ble_batch, which
\* returns to the lock of line 764, after which count is not read again
EnqLock(p) ==
    /\ pc[p] \in {"e_lock", "e_relock"}
    /\ Free(batch_mutex)
    /\ IF pc[p] = "e_lock" /\ count >= ESPHOME_MAX_ADV_BATCH
       THEN /\ pc' = [pc EXCEPT ![p] = "f_lock"]
            /\ fl_ret' = [fl_ret EXCEPT ![p] = "e_relock"]
            /\ UNCHANGED batch_mutex
       ELSE /\ pc' = [pc EXCEPT ![p] = "e_store"]
            /\ batch_mutex' = p
            /\ UNCHANGED fl_ret
    /\ UNCHANGED <<recvVars, running, stopVars, macVars, clients, clients_mutex, send_mutex, batchVars, now,
                   fl_i, fl_buf, timerVars, listenVars, connVars, clientVars,
                   wire, histVars>>

\* lines 767-784: the store at advertisements[count], count++, unlock
EnqStore(p) ==
    /\ pc[p] = "e_store"
    /\ batch_mutex = p
    /\ maxIdx' = IF count > maxIdx THEN count ELSE maxIdx
    /\ nStored' = nStored + 1
    /\ heard' = heard \cup {<<nStored + 1, c>> : c \in Listening}
    /\ first_ms' = IF count = 0 THEN now ELSE first_ms
    /\ IF count < ESPHOME_MAX_ADV_BATCH
       THEN /\ adverts' = Append(Entries(adverts, count), nStored + 1)
            /\ count' = count + 1
       ELSE \E c \in CorruptCounts :
                /\ count' = c
                /\ adverts' = Entries(adverts, c)
    /\ address' = mac_to_uint64(mac)
    /\ batch_mutex' = NoThread
    /\ pc' = [pc EXCEPT ![p] = "e_post"]
    /\ UNCHANGED <<recvVars, running, stopVars, mac, clients, clients_mutex, send_mutex, last_flush, now,
                   flushVars, timerVars, listenVars, connVars, clientVars, wire,
                   nextAdv, flushedIds, dupFlushed, dropped>>

\* lines 786-789: count read without the lock; a full batch is flushed
EnqPost(p) ==
    /\ pc[p] = "e_post"
    /\ IF count >= ESPHOME_MAX_ADV_BATCH
       THEN /\ pc' = [pc EXCEPT ![p] = "f_lock"]
            /\ fl_ret' = [fl_ret EXCEPT ![p] = "idle"]
       ELSE /\ pc' = [pc EXCEPT ![p] = "idle"]
            /\ UNCHANGED fl_ret
    /\ UNCHANGED <<recvVars, running, stopVars, macVars, clients, mutexVars, batchVars, now, fl_i, fl_buf,
                   timerVars, listenVars, connVars, clientVars, wire, histVars>>

(* ---------------- flush_ble_batch ---------------- *)
\* the return of line 478 without the unlock of line 477
FlushLock_NoUnlockOnEmpty(t) ==
    /\ pc[t] = "f_lock"
    /\ Free(batch_mutex)
    /\ IF count = 0
       THEN /\ pc' = [pc EXCEPT ![t] = fl_ret[t]]
            /\ fl_ret' = [fl_ret EXCEPT ![t] = "none"]
            /\ batch_mutex' = t
            /\ UNCHANGED <<count, adverts, fl_buf, flushedIds,
                           dupFlushed, dropped, first_ms>>
       ELSE IF esphome_encode_ble_advertisements(ESPHOME_MAX_MESSAGE_SIZE, count) = 0
       THEN /\ count' = 0
            /\ adverts' = <<>>
            /\ first_ms' = 0
            /\ dropped' = dropped \cup Ids(adverts)
            /\ pc' = [pc EXCEPT ![t] = fl_ret[t]]
            /\ fl_ret' = [fl_ret EXCEPT ![t] = "none"]
            /\ UNCHANGED <<batch_mutex, fl_buf, flushedIds, dupFlushed>>
       ELSE /\ batch_mutex' = t
            /\ fl_buf' = [fl_buf EXCEPT ![t] = Entries(adverts, count)]
            /\ flushedIds' = flushedIds \cup Ids(adverts)
            /\ dupFlushed' = dupFlushed \cup (flushedIds \cap Ids(adverts))
            /\ pc' = [pc EXCEPT ![t] = "f_lockclients"]
            /\ UNCHANGED <<count, adverts, dropped, fl_ret, first_ms>>
    /\ UNCHANGED <<recvVars, running, stopVars, macVars, clients, clients_mutex, send_mutex, last_flush, now,
                   fl_i, timerVars, listenVars, connVars, clientVars, wire,
                   nextAdv, nStored, heard, maxIdx>>

\* a flush that returns from a failed encoding with the batch as it was
FlushLock_KeepsBatchOnEncodeFailure(t) ==
    /\ pc[t] = "f_lock"
    /\ Free(batch_mutex)
    /\ IF count = 0
       THEN /\ pc' = [pc EXCEPT ![t] = fl_ret[t]]
            /\ fl_ret' = [fl_ret EXCEPT ![t] = "none"]
            /\ UNCHANGED <<batch_mutex, count, adverts, fl_buf, flushedIds,
                           dupFlushed, dropped, first_ms>>
       ELSE IF esphome_encode_ble_advertisements(ESPHOME_MAX_MESSAGE_SIZE, count) = 0
       THEN /\ dropped' = dropped \cup Ids(adverts)
            /\ pc' = [pc EXCEPT ![t] = fl_ret[t]]
            /\ fl_ret' = [fl_ret EXCEPT ![t] = "none"]
            /\ UNCHANGED <<count, adverts, first_ms, batch_mutex, fl_buf, flushedIds,
                           dupFlushed>>
       ELSE /\ batch_mutex' = t
            /\ fl_buf' = [fl_buf EXCEPT ![t] = Entries(adverts, count)]
            /\ flushedIds' = flushedIds \cup Ids(adverts)
            /\ dupFlushed' = dupFlushed \cup (flushedIds \cap Ids(adverts))
            /\ pc' = [pc EXCEPT ![t] = "f_lockclients"]
            /\ UNCHANGED <<count, adverts, dropped, fl_ret, first_ms>>
    /\ UNCHANGED <<recvVars, running, stopVars, macVars, clients, clients_mutex, send_mutex, last_flush, now,
                   fl_i, timerVars, listenVars, connVars, clientVars, wire,
                   nextAdv, nStored, heard, maxIdx>>

\* lines 474-491: lock; an empty batch returns; the batch is encoded; a
\* failed encoding drops the batch and returns
FlushLock(t) ==
    /\ pc[t] = "f_lock"
    /\ Free(batch_mutex)
    /\ IF count = 0
       THEN /\ pc' = [pc EXCEPT ![t] = fl_ret[t]]
            /\ fl_ret' = [fl_ret EXCEPT ![t] = "none"]
            /\ UNCHANGED <<batch_mutex, count, adverts, fl_buf, flushedIds,
                           dupFlushed, dropped, first_ms>>
       ELSE IF esphome_encode_ble_advertisements(ESPHOME_MAX_MESSAGE_SIZE, count) = 0
       THEN /\ count' = 0
            /\ adverts' = <<>>
            /\ first_ms' = 0
            /\ dropped' = dropped \cup Ids(adverts)
            /\ pc' = [pc EXCEPT ![t] = fl_ret[t]]
            /\ fl_ret' = [fl_ret EXCEPT ![t] = "none"]
            /\ UNCHANGED <<batch_mutex, fl_buf, flushedIds, dupFlushed>>
       ELSE /\ batch_mutex' = t
            /\ fl_buf' = [fl_buf EXCEPT ![t] = Entries(adverts, count)]
            /\ flushedIds' = flushedIds \cup Ids(adverts)
            /\ dupFlushed' = dupFlushed \cup (flushedIds \cap Ids(adverts))
            /\ pc' = [pc EXCEPT ![t] = "f_lockclients"]
            /\ UNCHANGED <<count, adverts, dropped, fl_ret, first_ms>>
    /\ UNCHANGED <<recvVars, running, stopVars, macVars, clients, clients_mutex, send_mutex, last_flush, now,
                   fl_i, timerVars, listenVars, connVars, clientVars, wire,
                   nextAdv, nStored, heard, maxIdx>>

\* line 494
FlushLockClients(t) ==
    /\ pc[t] = "f_lockclients"
    /\ Free(clients_mutex)
    /\ clients_mutex' = t
    /\ fl_i' = [fl_i EXCEPT ![t] = 0]
    /\ pc' = [pc EXCEPT ![t] = "f_iter"]
    /\ UNCHANGED <<recvVars, running, stopVars, macVars, clients, send_mutex, batch_mutex, batchVars, now,
                   fl_buf, fl_ret, timerVars, listenVars, connVars, clientVars,
                   wire, histVars>>

\* the test of clients[i] with authenticated in place of subscribed_ble
Subscribed_Authenticated(cl) == cl.fd >= 0 /\ cl.authenticated

\* line 496: the test of clients[i]
Subscribed(cl) == cl.fd >= 0 /\ cl.subscribed_ble

\* lines 495-496: the loop test and the test of clients[i]
FlushIter(t) ==
    /\ pc[t] = "f_iter"
    /\ fl_i[t] < ESPHOME_MAX_CLIENTS
    /\ IF Subscribed(clients[fl_i[t]])
       THEN /\ pc' = [pc EXCEPT ![t] = "f_send"]
            /\ UNCHANGED fl_i
       ELSE /\ fl_i' = [fl_i EXCEPT ![t] = fl_i[t] + 1]
            /\ UNCHANGED pc
    /\ UNCHANGED <<recvVars, running, stopVars, macVars, clients, mutexVars, batchVars, now, fl_buf, fl_ret,
                   timerVars, listenVars, connVars, clientVars, wire, histVars>>

(* ---------------- send_message ---------------- *)
\* line 150: send(client->fd, send_buf, frame_len, MSG_NOSIGNAL) of the frame
\* (msg_type, body) with the result res; a send on fd -1 fails
SendResults == {"ok", "fail"}
Frame(msg_type, body, res) == [type |-> msg_type, body |-> body, res |-> res]
\* a connection on which the newest frame overtakes those before it
send_Overtaking(w, fd, msg_type, body, res) ==
    IF fd \in DOMAIN w
    THEN [w EXCEPT ![fd] = <<Frame(msg_type, body, res)>> \o w[fd]]
    ELSE w
send(w, fd, msg_type, body, res) ==
    IF fd \in DOMAIN w
    THEN [w EXCEPT ![fd] = Append(w[fd], Frame(msg_type, body, res))]
    ELSE w

\* flush_ble_batch line 497 -> send_message line 149: lock of the send guard
FlushSendLock(t) ==
    /\ pc[t] = "f_send"
    /\ Free(send_mutex[fl_i[t]])
    /\ send_mutex' = [send_mutex EXCEPT ![fl_i[t]] = t]
    /\ pc' = [pc EXCEPT ![t] = "f_write"]
    /\ UNCHANGED <<recvVars, running, stopVars, macVars, clients, clients_mutex, batch_mutex, batchVars, now,
                   flushVars, timerVars, listenVars, connVars, clientVars, wire,
                   histVars>>

\* a broadcast loop that ends at the first send that fails
FlushSend_StopOnFailure(t) ==
    /\ pc[t] = "f_write"
    /\ send_mutex[fl_i[t]] = t
    /\ \E res \in SendResults :
          /\ wire' = send(wire, clients[fl_i[t]].fd,
                          ESPHOME_MSG_BLUETOOTH_LE_RAW_ADVERTISEMENTS_RESPONSE,
                          fl_buf[t], res)
          /\ fl_i' = [fl_i EXCEPT ![t] = IF res = "ok" THEN fl_i[t] + 1
                                         ELSE ESPHOME_MAX_CLIENTS]
    /\ send_mutex' = [send_mutex EXCEPT ![fl_i[t]] = NoThread]
    /\ pc' = [pc EXCEPT ![t] = "f_iter"]
    /\ UNCHANGED <<recvVars, running, stopVars, macVars, clients, clients_mutex, batch_mutex, batchVars, now,
                   fl_buf, fl_ret, timerVars, listenVars, connVars, clientVars,
                   histVars>>

\* send_message lines 150-166 for the batch frame, and the loop's i++
FlushSend(t) ==
    /\ pc[t] = "f_write"
    /\ send_mutex[fl_i[t]] = t
    /\ \E res \in SendResults :
          wire' = send(wire, clients[fl_i[t]].fd,
                       ESPHOME_MSG_BLUETOOTH_LE_RAW_ADVERTISEMENTS_RESPONSE,
                       fl_buf[t], res)
    /\ send_mutex' = [send_mutex EXCEPT ![fl_i[t]] = NoThread]
    /\ fl_i' = [fl_i EXCEPT ![t] = fl_i[t] + 1]
    /\ pc' = [pc EXCEPT ![t] = "f_iter"]
    /\ UNCHANGED <<recvVars, running, stopVars, macVars, clients, clients_mutex, batch_mutex, batchVars, now,
                   fl_buf, fl_ret, timerVars, listenVars, connVars, clientVars,
                   histVars>>

\* lines 502-510: end of the loop: unlock of clients_mutex, the batch is
\* cleared, last_flush is set, unlock of batch_mutex
FlushClear(t) ==
    /\ pc[t] = "f_iter"
    /\ fl_i[t] >= ESPHOME_MAX_CLIENTS
    /\ clients_mutex = t
    /\ clients_mutex' = NoThread
    /\ count' = 0
    /\ adverts' = <<>>
    /\ first_ms' = 0
    /\ last_flush' = clock_gettime(now)
    /\ batch_mutex' = NoThread
    /\ fl_i' = [fl_i EXCEPT ![t] = 0]
    /\ fl_buf' = [fl_buf EXCEPT ![t] = <<>>]
    /\ pc' = [pc EXCEPT ![t] = fl_ret[t]]
    /\ fl_ret' = [fl_ret EXCEPT ![t] = "none"]
    /\ UNCHANGED <<recvVars, running, stopVars, macVars, clients, send_mutex, now, timerVars, listenVars,
                   connVars, clientVars, wire, nextAdv, nStored, heard,
                   flushedIds, dupFlushed, dropped, maxIdx>>

(* ---------------- flush_thread_func ---------------- *)
\* line 516-517: the loop test, then usleep(BATCH_FLUSH_INTERVAL_MS * 1000)
TimerSleep ==
    /\ pc["timer"] = "t_loop"
    /\ running
    /\ wake' = now + BATCH_FLUSH_INTERVAL_MS
    /\ pc' = [pc EXCEPT !["timer"] = "t_sleep"]
    /\ UNCHANGED <<recvVars, running, stopVars, macVars, clients, mutexVars, batchVars, now, flushVars,
                   t_now, t_last, listenVars, connVars, clientVars, wire,
                   histVars>>

\* lines 519-520: usleep returns, not before its interval has passed;
\* clock_gettime; server->last_flush is read without batch_mutex
TimerWake ==
    /\ pc["timer"] = "t_sleep"
    /\ now >= wake
    /\ t_now' = clock_gettime(now)
    /\ t_last' = last_flush
    /\ pc' = [pc EXCEPT !["timer"] = "t_eval"]
    /\ UNCHANGED <<recvVars, running, stopVars, macVars, clients, mutexVars, batchVars, now, flushVars,
                   wake, listenVars, connVars, clientVars, wire, histVars>>

\* line 525: the test that decides the call of flush_ble_batch
TimerDue(n, l) == FlushDue(elapsed_ms(n, l))

\* lines 522-527: elapsed_ms from the two fields of last_flush, each read
\* at one of two moments (a writer may set last_flush between them)
TimerEval ==
    /\ pc["timer"] = "t_eval"
    /\ \E s \in {t_last.tv_sec, last_flush.tv_sec},
          n \in {t_last.tv_nsec, last_flush.tv_nsec} :
          LET l == [tv_sec |-> s, tv_nsec |-> n] IN
          /\ t_last' = l
          /\ IF TimerDue(t_now, l)
             THEN /\ pc' = [pc EXCEPT !["timer"] = "f_lock"]
                  /\ fl_ret' = [fl_ret EXCEPT !["timer"] = "t_loop"]
             ELSE /\ pc' = [pc EXCEPT !["timer"] = "t_loop"]
                  /\ UNCHANGED fl_ret
    /\ UNCHANGED <<recvVars, running, stopVars, macVars, clients, mutexVars, batchVars, now, fl_i, fl_buf,
                   wake, t_now, listenVars, connVars, clientVars, wire, histVars>>

\* the clock advances
Tick(maxTicks) ==
    /\ now < StartMs + maxTicks * TickMs
    /\ now' = now + TickMs
    /\ UNCHANGED <<recvVars, running, stopVars, macVars, clients, mutexVars, batchVars, pc, flushVars,
                   timerVars, listenVars, connVars, clientVars, wire, histVars>>

(* ---------------- client_close ---------------- *)
\* a close that leaves the subscription in the slot
client_close_KeepsSubscription(cl) == [cl EXCEPT !.fd = -1, !.authenticated = FALSE]

\* lines 91-99 (recv_pos is not part of this state)
client_close(cl) ==
    [cl EXCEPT !.fd = -1, !.authenticated = FALSE, !.subscribed_ble = FALSE]

\* the connections close(client->fd) closes
ClosedBy(cl) == IF cl.fd >= 0 THEN {cl.fd} ELSE {}

(* ---------------- listen_thread_func ---------------- *)
\* line 582: accept returns a new connection
ListenAccept(maxConns) ==
    /\ lpc = "l_accept"
    /\ running
    /\ nextConn < maxConns
    /\ nextConn' = nextConn + 1
    /\ l_fd' = nextConn + 1
    /\ lpc' = "l_lock"
    /\ UNCHANGED <<recvVars, running, stopVars, macVars, clients, mutexVars, batchVars, now, pc, flushVars,
                   timerVars, l_slot, connVars, clientVars, wire, histVars>>

\* the scan that stops one slot early
FindFreeSlot_OneShort(cls) == IF cls[0].fd < 0 THEN 0 ELSE -1

\* lines 603-610: the first slot with fd < 0, or -1
FindFreeSlot(cls) ==
    IF \E i \in Slots : cls[i].fd < 0
    THEN CHOOSE i \in Slots : cls[i].fd < 0 /\ \A j \in Slots : cls[j].fd < 0 => i <= j
    ELSE -1

\* lines 602-617: the scan under clients_mutex; without a free slot the
\* connection is closed
ListenAssign ==
    /\ lpc = "l_lock"
    /\ Free(clients_mutex)
    /\ LET slot == FindFreeSlot(clients) IN
       /\ l_slot' = slot
       /\ IF slot >= 0
          THEN /\ clients' = [clients EXCEPT ![slot].fd = l_fd]
               /\ assigned' = assigned \cup {l_fd}
               /\ lpc' = "l_start"
               /\ UNCHANGED <<closed, l_fd>>
          ELSE /\ closed' = closed \cup {l_fd}
               /\ l_fd' = -1
               /\ lpc' = "l_accept"
               /\ UNCHANGED <<clients, assigned>>
    /\ UNCHANGED <<recvVars, running, stopVars, macVars, mutexVars, batchVars, now, pc, flushVars, timerVars,
                   nextConn, clientVars, wire, histVars>>

\* lines 620-625: thread_running is set and the thread is created, or
\* pthread_create fails
ListenStart ==
    /\ lpc = "l_start"
    /\ clients' = [clients EXCEPT ![l_slot].thread_running = TRUE]
    /\ \E created \in BOOLEAN :
          IF created
          THEN /\ cpc' = [cpc EXCEPT ![l_slot] = "c_recv"]
               /\ lpc' = "l_accept"
               /\ l_fd' = -1
               /\ l_slot' = -1
          ELSE /\ lpc' = "l_fail"
               /\ UNCHANGED <<cpc, l_fd, l_slot>>
    /\ UNCHANGED <<recvVars, running, stopVars, macVars, mutexVars, batchVars, now, pc, flushVars, timerVars,
                   nextConn, connVars, c_reply, wire, histVars>>

\* lines 626-628: client_close under clients_mutex after a failed pthread_create
ListenFail ==
    /\ lpc = "l_fail"
    /\ Free(clients_mutex)
    /\ closed' = closed \cup ClosedBy(clients[l_slot])
    /\ clients' = [clients EXCEPT ![l_slot] = client_close(clients[l_slot])]
    /\ recv_pos' = [recv_pos EXCEPT ![l_slot] = 0]
    /\ recv_buffer' = [recv_buffer EXCEPT ![l_slot] = <<>>]
    /\ lpc' = "l_accept"
    /\ l_fd' = -1
    /\ l_slot' = -1
    /\ UNCHANGED <<stream, script, inbox, running, stopVars, macVars, mutexVars, batchVars, now, pc, flushVars, timerVars,
                   nextConn, assigned, clientVars, wire, histVars>>

(* ---------------- frames ---------------- *)
\* uint32_t values, kept as two 16-bit halves
U16 == 65536
U32Of(n) == [hi |-> (n \div U16) % U16, lo |-> n % U16]
\* (uint32_t)(u + n), for 0 <= n < 2^16
U32Plus(u, n) ==
    LET lo == u.lo + n IN [hi |-> (u.hi + lo \div U16) % U16, lo |-> lo % U16]
\* n < u, for 0 <= n < 2^16
U32Above(u, n) == u.hi > 0 \/ u.lo > n
\* (uint32_t)(u - n), for 0 <= n < 2^16
U32Minus(u, n) ==
    IF u.lo >= n THEN [hi |-> u.hi, lo |-> u.lo - n]
    ELSE [hi |-> (u.hi + U16 - 1) % U16, lo |-> u.lo + U16 - n]
\* the value of u, for u < 2^31
U32Val(u) == u.hi * U16 + u.lo

\* pb_encode_varint: base-128 groups, least significant first, the
\* continuation bit set on all but the last
RECURSIVE Varint(_)
Varint(n) == IF n < 128 THEN <<n>> ELSE <<128 + (n % 128)>> \o Varint(n \div 128)

\* pb_decode_varint: the position of the last byte of the varint that starts
\* at pos, 0 when buf ends before it or it has more than 10 bytes
RECURSIVE VarintLast(_, _, _)
VarintLast(buf, pos, k) ==
    IF pos > Len(buf) \/ k > 10 THEN 0
    ELSE IF buf[pos] < 128 THEN pos
    ELSE VarintLast(buf, pos + 1, k + 1)

\* the varint in buf[pos .. last], converted to uint32_t
VarintU32(buf, pos, last) ==
    LET g(k) == IF pos + k <= last THEN buf[pos + k] % 128 ELSE 0
        low == g(0) + g(1) * 128 + g(2) * 16384 + g(3) * 2097152
    IN [hi |-> (low \div U16 + (g(4) % 16) * 4096) % U16, lo |-> low % U16]

\* esphome_frame_message: the preamble 0, the length of all that follows it
\* (type and payload), the type, the payload
FrameBytes(f) ==
    <<0>> \o Varint(Len(Varint(f.type)) + Len(f.payload)) \o Varint(f.type) \o f.payload

RECURSIVE Encoding(_)
Encoding(fs) == IF fs = <<>> THEN <<>> ELSE FrameBytes(Head(fs)) \o Encoding(Tail(fs))

\* esphome_decode_frame_header on recv_buffer[0 .. recv_pos-1]: header_len is
\* 0 while the header is incomplete, and on an error (a preamble that is not
\* 0, a length shorter than the type); msg_len is the length of the payload
\* alone (the comment of lines 428-433), msg_type is a uint16_t
NoHeader == [header_len |-> 0, msg_len |-> U32Of(0), msg_type |-> 0]
esphome_decode_frame_header(buf) ==
    LET e1 == VarintLast(buf, 2, 1)
        e2 == IF e1 = 0 THEN 0 ELSE VarintLast(buf, e1 + 1, 1)
        len == VarintU32(buf, 2, e1)
    IN IF Len(buf) < 1 \/ buf[1] # 0 \/ e1 = 0 \/ e2 = 0
       THEN NoHeader
       ELSE IF ~U32Above(len, e2 - e1 - 1)
       THEN NoHeader
       ELSE [header_len |-> e2,
             msg_len |-> U32Minus(len, e2 - e1),
             msg_type |-> VarintU32(buf, e1 + 1, e2).lo]

\* line 435 without the header
total_len_PayloadOnly(h) == h.msg_len

\* handle_client_data line 435: uint32_t total_len = header_len + msg_len
total_len(h) == U32Plus(h.msg_len, h.header_len)

\* lines 417-443 without the test of line 440
FrameReady_HeaderOnly(buf, pos) ==
    pos > 0 /\ esphome_decode_frame_header(buf).header_len # 0

\* handle_client_data lines 417-443: a whole frame is at the head of the buffer
FrameReady(buf, pos) ==
    LET h == esphome_decode_frame_header(buf) IN
    pos > 0 /\ h.header_len # 0 /\ ~U32Above(total_len(h), pos)

\* lines 446-447: the payload dispatch_message is given, as far as it lies
\* in the valid part of the buffer
PayloadOf(buf, h) ==
    SubSeq(buf, h.header_len + 1,
           IF h.msg_len.hi = 0 /\ h.header_len + h.msg_len.lo <= Len(buf)
           THEN h.header_len + h.msg_len.lo ELSE Len(buf))

\* a payload esphome_decode_subscribe_ble_advertisements rejects: a
\* length-delimited field whose bytes are missing
MalformedPayload == <<10, 5>>
\* a decoder that accepts every payload
DecodesOk_Anything(payload) == payload = payload
DecodesOk(payload) == payload # MalformedPayload

\* the call dispatch_message(server, client, msg_type, payload, payload_len)
Dispatched(msg_type, payload_len, payload) ==
    [type |-> msg_type, payload_len |-> payload_len, payload |-> payload]
dispatch(box, fd, d) == IF fd \in DOMAIN box THEN [box EXCEPT ![fd] = Append(box[fd], d)] ELSE box

\* lines 452-454: memmove and recv_pos -= total_len; nothing to remove when
\* the frame came alone and whole (the buffer is then not modelled)
RemovedPos(buf, pos) ==
    IF buf = <<>> THEN pos
    ELSE pos - U32Val(total_len(esphome_decode_frame_header(buf)))
Removed(buf) ==
    IF buf = <<>> THEN <<>>
    ELSE SubSeq(buf, U32Val(total_len(esphome_decode_frame_header(buf))) + 1, Len(buf))

(* ---------------- dispatch_message and the handlers ---------------- *)
NoReply == [type |-> 0, body |-> [len |-> 0]]

\* a dispatcher that answers every type with the type after it
Reply_EveryType(msg_type) == [type |-> msg_type + 1, body |-> [len |-> 0]]

\* the message the handler of msg_type passes to send_message
Reply(msg_type) ==
    CASE msg_type = ESPHOME_MSG_HELLO_REQUEST ->
            [type |-> ESPHOME_MSG_HELLO_RESPONSE,
             body |-> [api_version_major |-> 1, api_version_minor |-> 12]]
      [] msg_type = ESPHOME_MSG_CONNECT_REQUEST ->
            [type |-> ESPHOME_MSG_CONNECT_RESPONSE,
             body |-> [invalid_password |-> FALSE]]
      [] msg_type = ESPHOME_MSG_DEVICE_INFO_REQUEST ->
            [type |-> ESPHOME_MSG_DEVICE_INFO_RESPONSE,
             body |-> [uses_password |-> FALSE, has_deep_sleep |-> FALSE]]
      [] msg_type = ESPHOME_MSG_LIST_ENTITIES_REQUEST ->
            [type |-> ESPHOME_MSG_LIST_ENTITIES_DONE_RESPONSE, body |-> [len |-> 0]]
      [] msg_type = ESPHOME_MSG_PING_REQUEST ->
            [type |-> ESPHOME_MSG_PING_RESPONSE, body |-> [len |-> 0]]
      [] OTHER -> NoReply

\* a subscribe handler that wants the session authenticated
Handled_SubscribeNeedsAuth(cl, m) ==
    CASE m.type = ESPHOME_MSG_CONNECT_REQUEST -> [cl EXCEPT !.authenticated = TRUE]
      [] m.type = ESPHOME_MSG_SUBSCRIBE_BLUETOOTH_LE_ADVERTISEMENTS_REQUEST
            /\ m.ok /\ cl.authenticated ->
            [cl EXCEPT !.subscribed_ble = TRUE]
      [] OTHER -> cl

\* handlers of which every one sets authenticated
Handled_AllAuthenticate(cl, m) == [cl EXCEPT !.authenticated = TRUE]

\* the session after the handler of message m (m.ok: the payload decodes)
Handled(cl, m) ==
    CASE m.type = ESPHOME_MSG_CONNECT_REQUEST -> [cl EXCEPT !.authenticated = TRUE]
      [] m.type = ESPHOME_MSG_SUBSCRIBE_BLUETOOTH_LE_ADVERTISEMENTS_REQUEST /\ m.ok ->
            [cl EXCEPT !.subscribed_ble = TRUE]
      [] OTHER -> cl

\* the frames a peer may send: one per type, and a subscribe request whose
\* payload does not decode
InMsgs(types) ==
    {[type |-> t, ok |-> TRUE] : t \in types}
        \cup {[type |-> t, ok |-> FALSE] :
                t \in types \cap {ESPHOME_MSG_SUBSCRIBE_BLUETOOTH_LE_ADVERTISEMENTS_REQUEST}}

\* a message type dispatch_message has no case for (line 390)
UnknownType == 200

\* the replies sent so far on connection fd
Replies(w, fd) ==
    IF fd \in DOMAIN w
    THEN SelectSeq(w[fd], LAMBDA f :
            f.type # ESPHOME_MSG_BLUETOOTH_LE_RAW_ADVERTISEMENTS_RESPONSE)
    ELSE <<>>

(* ---------------- client_thread_func ---------------- *)
\* lines 545-563: recv returns one frame m, alone and whole, which
\* handle_client_data dispatches; the handler runs up to its call of
\* send_message
ClientRecv(i, m, maxReplies) ==
    /\ cpc[i] = "c_recv"
    /\ running /\ clients[i].fd >= 0
    /\ clients[i].fd \notin DOMAIN stream
    /\ clients' = [clients EXCEPT ![i] = Handled(clients[i], m)]
    /\ LET payload == IF m.ok THEN <<>> ELSE MalformedPayload IN
       inbox' = dispatch(inbox, clients[i].fd,
                         Dispatched(m.type, U32Of(Len(payload)), payload))
    /\ IF Reply(m.type) # NoReply
       THEN /\ Len(Replies(wire, clients[i].fd)) < maxReplies
            /\ c_reply' = [c_reply EXCEPT ![i] = Reply(m.type)]
            /\ cpc' = [cpc EXCEPT ![i] = "c_send"]
       ELSE UNCHANGED <<c_reply, cpc>>
    /\ UNCHANGED <<recv_pos, recv_buffer, stream, script, running, stopVars, macVars, mutexVars, batchVars, now, pc, flushVars, timerVars,
                   listenVars, connVars, wire, histVars>>

\* send_message line 149 without the wait for the send guard
ClientSendLock_NoWait(i) ==
    /\ cpc[i] = "c_send"
    /\ send_mutex' = [send_mutex EXCEPT ![i] = ClientThread(i)]
    /\ cpc' = [cpc EXCEPT ![i] = "c_write"]
    /\ UNCHANGED <<recvVars, running, stopVars, macVars, clients, clients_mutex, batch_mutex, batchVars, now,
                   pc, flushVars, timerVars, listenVars, connVars, c_reply, wire,
                   histVars>>

\* send_message line 149 for a reply
ClientSendLock(i) ==
    /\ cpc[i] = "c_send"
    /\ Free(send_mutex[i])
    /\ send_mutex' = [send_mutex EXCEPT ![i] = ClientThread(i)]
    /\ cpc' = [cpc EXCEPT ![i] = "c_write"]
    /\ UNCHANGED <<recvVars, running, stopVars, macVars, clients, clients_mutex, batch_mutex, batchVars, now,
                   pc, flushVars, timerVars, listenVars, connVars, c_reply, wire,
                   histVars>>

\* send_message lines 150-166 for a reply; back in handle_client_data the
\* frame is removed from the buffer (lines 452-454)
ClientSend(i) ==
    /\ cpc[i] = "c_write"
    /\ send_mutex[i] = ClientThread(i)
    /\ \E res \in SendResults :
          wire' = send(wire, clients[i].fd, c_reply[i].type, c_reply[i].body, res)
    /\ send_mutex' = [send_mutex EXCEPT ![i] = NoThread]
    /\ c_reply' = [c_reply EXCEPT ![i] = NoReply]
    /\ recv_pos' = [recv_pos EXCEPT ![i] = RemovedPos(recv_buffer[i], recv_pos[i])]
    /\ recv_buffer' = [recv_buffer EXCEPT ![i] = Removed(recv_buffer[i])]
    /\ cpc' = [cpc EXCEPT ![i] = IF recv_buffer[i] = <<>> THEN "c_recv" ELSE "c_parse"]
    /\ UNCHANGED <<stream, script, inbox, running, stopVars, macVars, clients, clients_mutex, batch_mutex, batchVars, now,
                   pc, flushVars, timerVars, listenVars, connVars, histVars>>

\* the sizes of what one recv returns: a few bytes, or all there is
ChunkSizes(avail) == (1 .. MaxChunk) \cup {1000, avail}

\* lines 545-563: recv returns n bytes of the peer's stream, at most what is
\* left of the buffer; handle_client_data is called
ClientRecvBytes(i, n) ==
    /\ cpc[i] = "c_recv"
    /\ running /\ clients[i].fd >= 0
    /\ clients[i].fd \in DOMAIN stream
    /\ LET fd == clients[i].fd IN
       /\ n >= 1
       /\ n <= Len(stream[fd])
       /\ n <= RECV_BUFFER_SIZE - recv_pos[i]
       /\ recv_buffer' = [recv_buffer EXCEPT ![i] = @ \o SubSeq(stream[fd], 1, n)]
       /\ recv_pos' = [recv_pos EXCEPT ![i] = @ + n]
       /\ stream' = [stream EXCEPT ![fd] = SubSeq(@, n + 1, Len(@))]
    /\ cpc' = [cpc EXCEPT ![i] = "c_parse"]
    /\ UNCHANGED <<script, inbox, running, stopVars, macVars, clients, mutexVars, batchVars, now, pc,
                   flushVars, timerVars, listenVars, connVars, c_reply, wire,
                   histVars>>

\* lines 546-557 with a full buffer: recv is asked for 0 bytes and returns
\* 0 once the peer has sent more, which is taken for the peer's close
ClientRecvFull(i) ==
    /\ cpc[i] = "c_recv"
    /\ running /\ clients[i].fd >= 0
    /\ clients[i].fd \in DOMAIN stream
    /\ recv_pos[i] = RECV_BUFFER_SIZE
    /\ stream[clients[i].fd] # <<>>
    /\ cpc' = [cpc EXCEPT ![i] = "c_cleanup"]
    /\ UNCHANGED <<recvVars, running, stopVars, macVars, clients, mutexVars, batchVars, now, pc,
                   flushVars, timerVars, listenVars, connVars, c_reply, wire,
                   histVars>>

\* handle_client_data lines 403-454, one turn of the loop: without a whole
\* frame at the head of the buffer the loop ends; else the frame is
\* dispatched; a handler that replies runs up to its call of send_message,
\* after any other the frame is removed from the buffer
ClientParse(i) ==
    /\ cpc[i] = "c_parse"
    /\ LET buf == recv_buffer[i]
           h == esphome_decode_frame_header(buf)
           payload == PayloadOf(buf, h)
           m == [type |-> h.msg_type, ok |-> DecodesOk(payload)]
       IN IF ~FrameReady(buf, recv_pos[i])
          THEN /\ cpc' = [cpc EXCEPT ![i] = "c_recv"]
               /\ UNCHANGED <<clients, inbox, c_reply, recv_pos, recv_buffer>>
          ELSE /\ clients' = [clients EXCEPT ![i] = Handled(clients[i], m)]
               /\ inbox' = dispatch(inbox, clients[i].fd,
                                    Dispatched(h.msg_type, h.msg_len, payload))
               /\ IF Reply(h.msg_type) # NoReply
                  THEN /\ c_reply' = [c_reply EXCEPT ![i] = Reply(h.msg_type)]
                       /\ cpc' = [cpc EXCEPT ![i] = "c_send"]
                       /\ UNCHANGED <<recv_pos, recv_buffer>>
                  ELSE /\ recv_pos' = [recv_pos EXCEPT ![i] = RemovedPos(buf, recv_pos[i])]
                       /\ recv_buffer' = [recv_buffer EXCEPT ![i] = Removed(buf)]
                       /\ UNCHANGED <<c_reply, cpc>>
    /\ UNCHANGED <<stream, script, running, stopVars, macVars, mutexVars, batchVars, now, pc,
                   flushVars, timerVars, listenVars, connVars, wire, histVars>>

\* lines 551-557: recv returns 0 or -1 (the peer has closed, or an error)
ClientRecvEnd(i) ==
    /\ cpc[i] = "c_recv"
    /\ cpc' = [cpc EXCEPT ![i] = "c_cleanup"]
    /\ UNCHANGED <<recvVars, running, stopVars, macVars, clients, mutexVars, batchVars, now, pc, flushVars,
                   timerVars, listenVars, connVars, c_reply, wire, histVars>>

\* client_close without waiting for clients_mutex
ClientCleanup_NoLock(i) ==
    /\ cpc[i] = "c_cleanup"
    /\ closed' = closed \cup ClosedBy(clients[i])
    /\ clients' = [clients EXCEPT ![i] =
                      [client_close(clients[i]) EXCEPT !.thread_running = FALSE]]
    /\ recv_pos' = [recv_pos EXCEPT ![i] = 0]
    /\ recv_buffer' = [recv_buffer EXCEPT ![i] = <<>>]
    /\ cpc' = [cpc EXCEPT ![i] = "none"]
    /\ UNCHANGED <<stream, script, inbox, running, stopVars, macVars, mutexVars, batchVars, now, pc, flushVars, timerVars,
                   listenVars, assigned, c_reply, wire, histVars>>

\* a cleanup that closes every session
ClientCleanup_ClosesAll(i) ==
    /\ cpc[i] = "c_cleanup"
    /\ Free(clients_mutex)
    /\ closed' = closed \cup UNION {ClosedBy(clients[j]) : j \in Slots}
    /\ clients' = [j \in Slots |->
                      IF j = i
                      THEN [client_close(clients[j]) EXCEPT !.thread_running = FALSE]
                      ELSE client_close(clients[j])]
    /\ recv_pos' = [recv_pos EXCEPT ![i] = 0]
    /\ recv_buffer' = [recv_buffer EXCEPT ![i] = <<>>]
    /\ cpc' = [cpc EXCEPT ![i] = "none"]
    /\ UNCHANGED <<stream, script, inbox, running, stopVars, macVars, mutexVars, batchVars, now, pc, flushVars, timerVars,
                   listenVars, assigned, c_reply, wire, histVars>>

\* lines 566-572: client_close under clients_mutex; the thread ends
ClientCleanup(i) ==
    /\ cpc[i] = "c_cleanup"
    /\ Free(clients_mutex)
    /\ closed' = closed \cup ClosedBy(clients[i])
    /\ clients' = [clients EXCEPT ![i] =
                      [client_close(clients[i]) EXCEPT !.thread_running = FALSE]]
    /\ recv_pos' = [recv_pos EXCEPT ![i] = 0]
    /\ recv_buffer' = [recv_buffer EXCEPT ![i] = <<>>]
    /\ cpc' = [cpc EXCEPT ![i] = "none"]
    /\ UNCHANGED <<stream, script, inbox, running, stopVars, macVars, mutexVars, batchVars, now, pc, flushVars, timerVars,
                   listenVars, assigned, c_reply, wire, histVars>>

(* ---------------- initial states ---------------- *)
\* client_init, lines 85-89
FreeClient == [fd |-> -1, authenticated |-> FALSE, subscribed_ble |-> FALSE,
               thread_running |-> FALSE]

\* esphome_api_init followed by esphome_api_start
InitAnyMac ==
    /\ running = TRUE
    /\ listen_fd = 0
    /\ spc = "s_idle"
    /\ s_i = 0
    /\ address = Zero64
    /\ clients_mutex = NoThread
    /\ send_mutex = [i \in Slots |-> NoThread]
    /\ batch_mutex = NoThread
    /\ count = 0
    /\ adverts = <<>>
    /\ now = StartMs
    /\ last_flush = clock_gettime(StartMs)
    /\ pc = [t \in FlushCallers |-> IF t = "timer" THEN "t_loop" ELSE "idle"]
    /\ fl_i = [t \in FlushCallers |-> 0]
    /\ fl_buf = [t \in FlushCallers |-> <<>>]
    /\ fl_ret = [t \in FlushCallers |-> "none"]
    /\ wake = 0
    /\ t_now = clock_gettime(StartMs)
    /\ t_last = clock_gettime(StartMs)
    /\ lpc = "l_accept"
    /\ l_fd = -1
    /\ l_slot = -1
    /\ c_reply = [i \in Slots |-> NoReply]
    /\ closed = {}
    /\ nextAdv = 0
    /\ nStored = 0
    /\ first_ms = 0
    /\ heard = {}
    /\ flushedIds = {}
    /\ dupFlushed = {}
    /\ dropped = {}
    /\ maxIdx = -1

\* the server after esphome_api_start; the callers of
\* esphome_api_queue_ble_advert pass the sample address
InitServer ==
    /\ InitAnyMac
    /\ mac = SampleMac

\* client_init line 86: every receive buffer is empty
EmptyBuffers ==
    /\ recv_pos = [i \in Slots |-> 0]
    /\ recv_buffer = [i \in Slots |-> <<>>]

\* the server after construction: no connection yet
Init ==
    /\ InitServer
    /\ EmptyBuffers
    /\ clients = [i \in Slots |-> FreeClient]
    /\ cpc = [i \in Slots |-> "none"]
    /\ nextConn = 0
    /\ assigned = {}
    /\ wire = <<>>
    /\ stream = <<>>
    /\ script = <<>>
    /\ inbox = <<>>

\* the batch queue with one session that has subscribed and whose peer
\* sends nothing further (its thread stays in recv), the other slot free;
\* no connection is observed
InitQueue ==
    /\ InitServer
    /\ EmptyBuffers
    /\ clients = [i \in Slots |-> IF i = 0
                     THEN [fd |-> 1, authenticated |-> TRUE,
                           subscribed_ble |-> TRUE, thread_running |-> TRUE]
                     ELSE FreeClient]
    /\ cpc = [i \in Slots |-> IF i = 0 THEN "c_recv" ELSE "none"]
    /\ nextConn = 1
    /\ assigned = {1}
    /\ wire = <<>>
    /\ stream = <<>>
    /\ script = <<>>
    /\ inbox = <<>>

(* ---------------- next-state relations ---------------- *)
Enqueue(p, maxAdv) ==
    \/ EnqCall(p, maxAdv)
    \/ EnqLock(p)
    \/ EnqStore(p)
    \/ EnqPost(p)

Flush(t) ==
    \/ FlushLock(t)
    \/ FlushLockClients(t)
    \/ FlushIter(t)
    \/ FlushSendLock(t)
    \/ FlushSend(t)
    \/ FlushClear(t)

Timer ==
    \/ TimerSleep
    \/ TimerWake
    \/ TimerEval

Listen(maxConns) ==
    \/ ListenAccept(maxConns)
    \/ ListenAssign
    \/ ListenStart
    \/ ListenFail

Client(i, msgs, maxReplies) ==
    \/ \E m \in msgs : ClientRecv(i, m, maxReplies)
    \/ ClientSendLock(i)
    \/ ClientSend(i)
    \/ ClientRecvEnd(i)
    \/ ClientCleanup(i)

\* the requests of the handshake scenario
HandshakeMsgs ==
    InMsgs({ESPHOME_MSG_HELLO_REQUEST, ESPHOME_MSG_CONNECT_REQUEST,
            ESPHOME_MSG_SUBSCRIBE_BLUETOOTH_LE_ADVERTISEMENTS_REQUEST,
            ESPHOME_MSG_DISCONNECT_REQUEST})

\* the server: every thread, one caller of enqueue, no connection observed
Next ==
    \/ Enqueue("p1", MaxAdvertsMain)
    \/ \E t \in FlushCallers : Flush(t)
    \/ Timer
    \/ Tick(MaxTicksMain)
    \/ Listen(MaxConns)
    \/ \E i \in Slots : Client(i, HandshakeMsgs, MaxReplies)

Spec == Init /\ [][Next]_vars

\* the handshake scenario: the first connection is observed
InitE2E ==
    /\ InitServer
    /\ EmptyBuffers
    /\ clients = [i \in Slots |-> FreeClient]
    /\ cpc = [i \in Slots |-> "none"]
    /\ nextConn = 0
    /\ assigned = {}
    /\ wire = [c \in {1} |-> <<>>]
    /\ stream = <<>>
    /\ script = <<>>
    /\ inbox = <<>>

NextE2E ==
    \/ Enqueue("p1", MaxAdvertsE2E)
    \/ \E t \in FlushCallers : Flush(t)
    \/ Timer
    \/ Tick(MaxTicksE2E)
    \/ Listen(MaxConnsE2E)
    \/ \E i \in Slots : Client(i, HandshakeMsgs, MaxReplies)

SpecE2E == InitE2E /\ [][NextE2E]_vars

\* the server under fair scheduling: every thread, both callers of enqueue,
\* no connection observed
LiveMsgs ==
    InMsgs({ESPHOME_MSG_HELLO_REQUEST,
            ESPHOME_MSG_SUBSCRIBE_BLUETOOTH_LE_ADVERTISEMENTS_REQUEST})

\* the steps of thread t
StepOf(t) ==
    \/ t \in Producers /\ (Enqueue(t, MaxAdvertsLive) \/ Flush(t))
    \/ t = "timer" /\ (Flush(t) \/ Timer)
    \/ t = "listen" /\ Listen(MaxConnsLive)
    \/ \E i \in Slots : t = ClientThread(i) /\ Client(i, LiveMsgs, MaxReplies)

NextLive ==
    \/ \E p \in Producers : Enqueue(p, MaxAdvertsLive)
    \/ \E t \in FlushCallers : Flush(t)
    \/ Timer
    \/ Tick(MaxTicksLive)
    \/ Listen(MaxConnsLive)
    \/ \E i \in Slots : Client(i, LiveMsgs, MaxReplies)

\* a thread that can take a step again and again takes it: the scheduler
\* runs every runnable thread, and a thread in pthread_mutex_lock gets a
\* mutex that is released again and again
SpecLive == Init /\ [][NextLive]_vars /\ \A t \in Threads : SF_vars(StepOf(t))

NextQueue ==
    \/ \E p \in Producers : Enqueue(p, MaxAdverts)
    \/ \E t \in FlushCallers : Flush(t)
    \/ Timer
    \/ Tick(MaxTicks)

SpecQueue == InitQueue /\ [][NextQueue]_vars

(* ---------------- the dispatcher, every message type ---------------- *)
\* every type dispatch_message has a case for, a response type sent the
\* wrong way, and an unknown type
DispatchMsgs ==
    InMsgs({ESPHOME_MSG_HELLO_REQUEST, ESPHOME_MSG_CONNECT_REQUEST,
            ESPHOME_MSG_DEVICE_INFO_REQUEST, ESPHOME_MSG_LIST_ENTITIES_REQUEST,
            ESPHOME_MSG_SUBSCRIBE_STATES_REQUEST,
            ESPHOME_MSG_SUBSCRIBE_BLUETOOTH_LE_ADVERTISEMENTS_REQUEST,
            ESPHOME_MSG_SUBSCRIBE_HOMEASSISTANT_SERVICES_REQUEST,
            ESPHOME_MSG_SUBSCRIBE_HOMEASSISTANT_STATES_REQUEST,
            ESPHOME_MSG_PING_REQUEST, ESPHOME_MSG_DISCONNECT_REQUEST,
            ESPHOME_MSG_PING_RESPONSE, UnknownType})

\* every connection is observed: the frames dispatched and the frames sent
InitDispatch ==
    /\ InitServer
    /\ EmptyBuffers
    /\ clients = [i \in Slots |-> FreeClient]
    /\ cpc = [i \in Slots |-> "none"]
    /\ nextConn = 0
    /\ assigned = {}
    /\ wire = [c \in 1 .. MaxConnsDispatch |-> <<>>]
    /\ inbox = [c \in 1 .. MaxConnsDispatch |-> <<>>]
    /\ stream = <<>>
    /\ script = <<>>

\* the session's thread, with at most MaxDispatch frames from the peer
ClientDispatch(i) ==
    \/ /\ clients[i].fd \in DOMAIN inbox
       /\ Len(inbox[clients[i].fd]) < MaxDispatch
       /\ \E m \in DispatchMsgs : ClientRecv(i, m, MaxDispatch)
    \/ ClientSendLock(i)
    \/ ClientSend(i)
    \/ ClientRecvEnd(i)
    \/ ClientCleanup(i)

NextDispatch ==
    \/ Enqueue("p1", MaxAdvertsDispatch)
    \/ \E t \in FlushCallers : Flush(t)
    \/ Timer
    \/ Tick(MaxTicksDispatch)
    \/ Listen(MaxConnsDispatch)
    \/ \E i \in Slots : ClientDispatch(i)

SpecDispatch == InitDispatch /\ [][NextDispatch]_vars

(* ---------------- the reuse of a slot ---------------- *)
\* the first slot holds the first connection, authenticated and subscribed,
\* with the beginning of a frame in its receive buffer; its peer sends nothing
\* further; the connections after it are observed
InitReuse ==
    /\ InitServer
    /\ recv_pos = [i \in Slots |-> IF i = 0 THEN 2 ELSE 0]
    /\ recv_buffer = [i \in Slots |-> IF i = 0 THEN <<0, 3>> ELSE <<>>]
    /\ clients = [i \in Slots |-> IF i = 0
                     THEN [fd |-> 1, authenticated |-> TRUE,
                           subscribed_ble |-> TRUE, thread_running |-> TRUE]
                     ELSE FreeClient]
    /\ cpc = [i \in Slots |-> IF i = 0 THEN "c_recv" ELSE "none"]
    /\ nextConn = 1
    /\ assigned = {1}
    /\ wire = [c \in 2 .. MaxConnsReuse |-> <<>>]
    /\ inbox = [c \in 2 .. MaxConnsReuse |-> <<>>]
    /\ stream = <<>>
    /\ script = <<>>

NextReuse ==
    \/ Enqueue("p1", MaxAdvertsReuse)
    \/ \E t \in FlushCallers : Flush(t)
    \/ Timer
    \/ Tick(MaxTicksReuse)
    \/ Listen(MaxConnsReuse)
    \/ \E i \in Slots : ClientDispatch(i)

SpecReuse == InitReuse /\ [][NextReuse]_vars

(* ---------------- the broadcast to two sessions ---------------- *)
\* both slots hold a session that has subscribed; both connections are
\* observed
InitBroadcast ==
    /\ InitServer
    /\ EmptyBuffers
    /\ clients = [i \in Slots |-> [fd |-> i + 1, authenticated |-> TRUE,
                                   subscribed_ble |-> TRUE, thread_running |-> TRUE]]
    /\ cpc = [i \in Slots |-> "c_recv"]
    /\ nextConn = ESPHOME_MAX_CLIENTS
    /\ assigned = 1 .. ESPHOME_MAX_CLIENTS
    /\ wire = [c \in 1 .. ESPHOME_MAX_CLIENTS |-> <<>>]
    /\ inbox = <<>>
    /\ stream = <<>>
    /\ script = <<>>

\* the peers send pings, or close
PingMsgs == InMsgs({ESPHOME_MSG_PING_REQUEST})

NextBroadcast ==
    \/ Enqueue("p1", MaxAdvertsBroadcast)
    \/ \E t \in FlushCallers : Flush(t)
    \/ Timer
    \/ Tick(MaxTicksBroadcast)
    \/ \E i \in Slots : Client(i, PingMsgs, 1)

SpecBroadcast == InitBroadcast /\ [][NextBroadcast]_vars

(* ---------------- the receive path, byte by byte ---------------- *)
\* the payloads of the sample frames: n bytes that differ from place to place
Bytes(n) == [k \in 1 .. n |-> k % 251]

\* frames a peer sends: with and without a reply, with one-byte and two-byte
\* varints in the header, and one whose payload the handler rejects
PingFrame == [type |-> ESPHOME_MSG_PING_REQUEST, payload |-> <<>>]
SampleFrames ==
    { PingFrame,
      [type |-> ESPHOME_MSG_HELLO_REQUEST, payload |-> <<10, 1, 65>>],
      [type |-> ESPHOME_MSG_SUBSCRIBE_BLUETOOTH_LE_ADVERTISEMENTS_REQUEST,
       payload |-> <<8, 1>>],
      [type |-> ESPHOME_MSG_SUBSCRIBE_BLUETOOTH_LE_ADVERTISEMENTS_REQUEST,
       payload |-> MalformedPayload],
      [type |-> UnknownType, payload |-> Bytes(130)] }

\* the largest frame that fits the receive buffer: 4 bytes of header and
\* RECV_BUFFER_SIZE - 4 bytes of payload
BigFrame == [type |-> ESPHOME_MSG_PING_REQUEST, payload |-> Bytes(RECV_BUFFER_SIZE - 4)]

RECURSIVE SeqsUpTo(_, _)
SeqsUpTo(S, n) ==
    IF n = 0 THEN {<<>>}
    ELSE LET shorter == SeqsUpTo(S, n - 1) IN
         shorter \cup {Append(q, x) : q \in shorter, x \in S}

\* what a peer sets out to send: valid frames, each fitting the buffer
ValidScripts ==
    (SeqsUpTo(SampleFrames, MaxFrames) \ {<<>>})
        \cup {<<BigFrame>>, <<BigFrame, PingFrame>>, <<PingFrame, BigFrame>>}

\* a frame whose header declares more than fits the buffer
OversizeLen == RECV_BUFFER_SIZE + 904
OversizeFrame == [type |-> ESPHOME_MSG_PING_REQUEST, payload |-> Bytes(OversizeLen)]
\* a header whose length field is 2^32 - 1, and a ping after it
WrapBytes == <<0, 255, 255, 255, 255, 15, ESPHOME_MSG_PING_REQUEST, 0, 1, ESPHOME_MSG_PING_REQUEST>>

\* what the peer of an oversize frame has sent when it stops: the header,
\* as much as the buffer holds, or all of it and a ping
OversizeStreams ==
    LET all == FrameBytes(OversizeFrame) \o FrameBytes(PingFrame)
    IN {SubSeq(all, 1, 4), SubSeq(all, 1, RECV_BUFFER_SIZE), all}

\* one session, just set up by the listen thread (lines 602-621), whose
\* connection is observed byte by byte
InitRecv ==
    /\ InitServer
    /\ EmptyBuffers
    /\ clients = [i \in Slots |-> IF i = 0
                     THEN [fd |-> 1, authenticated |-> FALSE,
                           subscribed_ble |-> FALSE, thread_running |-> TRUE]
                     ELSE FreeClient]
    /\ cpc = [i \in Slots |-> IF i = 0 THEN "c_recv" ELSE "none"]
    /\ nextConn = 1
    /\ assigned = {1}
    /\ wire = [c \in {1} |-> <<>>]
    /\ inbox = [c \in {1} |-> <<>>]
    /\ \/ \E fs \in ValidScripts :
             /\ script = [c \in {1} |-> [frames |-> fs, valid |-> TRUE]]
             /\ stream = [c \in {1} |-> Encoding(fs)]
       \/ \E bs \in OversizeStreams \cup {WrapBytes} :
             /\ script = [c \in {1} |-> [frames |-> <<>>, valid |-> FALSE]]
             /\ stream = [c \in {1} |-> bs]

\* the session's thread, reading bytes
ClientBytes(i) ==
    \/ /\ clients[i].fd \in DOMAIN stream
       /\ \E n \in ChunkSizes(Len(stream[clients[i].fd])) : ClientRecvBytes(i, n)
    \/ ClientRecvFull(i)
    \/ ClientParse(i)
    \/ ClientSendLock(i)
    \/ ClientSend(i)
    \/ ClientRecvEnd(i)
    \/ ClientCleanup(i)

NextRecv == \E i \in Slots : ClientBytes(i)

SpecRecv == InitRecv /\ [][NextRecv]_vars

(* ---------------- observations ---------------- *)
\* the positions inside flush_ble_batch
FlushPcs == {"f_lock", "f_lockclients", "f_iter", "f_send", "f_write"}

\* a timespec in ms
MsOf(ts) == ts.tv_sec * 1000 + ts.tv_nsec \div 1000000

\* the batch frames sent so far on connection fd
AdvFrames(w, fd) ==
    IF fd \in DOMAIN w
    THEN SelectSeq(w[fd], LAMBDA f :
            f.type = ESPHOME_MSG_BLUETOOTH_LE_RAW_ADVERTISEMENTS_RESPONSE)
    ELSE <<>>

\* the mutexes, and the thread holding each
SendGuard(i) == IF i = 0 THEN "send0" ELSE "send1"
Mutexes == {"batch", "clients"} \cup {SendGuard(i) : i \in Slots}
Holder(m) ==
    CASE m = "batch" -> batch_mutex
      [] m = "clients" -> clients_mutex
      [] m = "send0" -> send_mutex[0]
      [] m = "send1" -> send_mutex[1]

\* the mutex whose pthread_mutex_lock thread t is about to call
WaitsOn(t) ==
    IF t \in FlushCallers
    THEN CASE pc[t] \in {"e_lock", "e_relock", "f_lock"} -> "batch"
           [] pc[t] = "f_lockclients" -> "clients"
           [] pc[t] = "f_send" -> SendGuard(fl_i[t])
           [] OTHER -> "none"
    ELSE IF t = "listen"
    THEN IF lpc \in {"l_lock", "l_fail"} THEN "clients" ELSE "none"
    ELSE LET i == IF t = ClientThread(0) THEN 0 ELSE 1 IN
         CASE cpc[i] = "c_send" -> SendGuard(i)
           [] cpc[i] = "c_cleanup" -> "clients"
           [] OTHER -> "none"

\* thread t is in pthread_mutex_lock on a mutex another thread (or itself) holds
Blocked(t) == WaitsOn(t) # "none" /\ Holder(WaitsOn(t)) # NoThread

(* ---------------- C1 ---------------- *)
\* C1: every advertisement accepted by enqueue is part of exactly one flushed
\* batch: an advertisement stored so far is still pending in the batch, or
\* was part of exactly one encoded batch, or (the one permitted loss) was in
\* a batch dropped by an encode failure; never lost, never in two batches.
C1_ExactlyOneBatch ==
    \A k \in 1 .. nStored :
        /\ k \in Ids(adverts) \/ k \in flushedIds \/ k \in dropped
        /\ k \notin dupFlushed
        /\ ~(k \in flushedIds /\ k \in dropped)
        /\ (k \in flushedIds /\ k \in Ids(adverts)) => batch_mutex # NoThread

(* ---------------- C2 ---------------- *)
\* C2: the batch never holds more than 16 advertisements and no store is
\* made at an index of 16 or more, for any interleaving of concurrent callers.
C2_CountWithinCapacity ==
    /\ count <= ESPHOME_MAX_ADV_BATCH
    /\ maxIdx < ESPHOME_MAX_ADV_BATCH

(* ---------------- C3 ---------------- *)
StoreStep == nStored' = nStored + 1
FlushEnd(t) == pc[t] \in FlushPcs /\ pc'[t] \notin FlushPcs /\ count > 0

\* C3: a store is made only into a batch of fewer than 16 advertisements
\* (a full batch is flushed before the 17th is stored), and count is 0 at
\* the end of every flush that found a non-empty batch.
C3_FlushBeforeSeventeenth ==
    [][/\ StoreStep => count < ESPHOME_MAX_ADV_BATCH
       /\ \A t \in FlushCallers : FlushEnd(t) => count' = 0]_vars

(* ---------------- C4 ---------------- *)
TimerEvalStep == pc["timer"] = "t_eval" /\ pc'["timer"] # "t_eval"

VisitStep(t) ==
    /\ pc[t] = "f_iter"
    /\ fl_i[t] < ESPHOME_MAX_CLIENTS
    /\ (pc'[t] # pc[t] \/ fl_i'[t] # fl_i[t])

\* C5: a flush of a non-empty batch visits every slot once, in order; a
\* visited slot gets a send attempt exactly when it is occupied and
\* subscribed at the visit, and whenever a flush is at a send, the slot it
\* sends to is occupied and subscribed.
C5_SendsToSubscribedOnly ==
    /\ [](\A t \in FlushCallers : pc[t] \in {"f_send", "f_write"} =>
            /\ clients[fl_i[t]].fd >= 0
            /\ clients[fl_i[t]].subscribed_ble)
    /\ [][\A t \in FlushCallers :
            /\ (pc[t] = "f_lockclients" /\ pc'[t] # pc[t]) =>
                  (pc'[t] = "f_iter" /\ fl_i'[t] = 0)
            /\ VisitStep(t) =>
                  /\ (clients[fl_i[t]].fd >= 0 /\ clients[fl_i[t]].subscribed_ble)
                        <=> (pc'[t] = "f_send" /\ fl_i'[t] = fl_i[t])
                  /\ pc'[t] # "f_send" => (pc'[t] = "f_iter" /\ fl_i'[t] = fl_i[t] + 1)
            /\ (pc[t] = "f_send" /\ pc'[t] # pc[t]) =>
                  (pc'[t] = "f_write" /\ fl_i'[t] = fl_i[t])
            /\ (pc[t] = "f_write" /\ pc'[t] # pc[t]) =>
                  (pc'[t] = "f_iter" /\ fl_i'[t] = fl_i[t] + 1)
            /\ (pc[t] = "f_iter" /\ pc'[t] \notin {"f_iter", "f_send"}) =>
                  fl_i[t] = ESPHOME_MAX_CLIENTS]_vars

\* a flush is writing to the second slot while the first slot is free
C5_Witness ==
    \E t \in FlushCallers :
        /\ pc[t] = "f_write"
        /\ fl_i[t] = 1
        /\ clients[0].fd < 0
        /\ clients[1].subscribed_ble

(* ---------------- C6 ---------------- *)
\* the handshake of the session in slot i is complete, one advertisement was
\* enqueued while it was subscribed, and the flush of that advertisement is over
E2EDone(i) ==
    LET c == clients[i].fd
        r == Replies(wire, c) IN
    /\ c \in DOMAIN wire
    /\ Len(r) = 2
    /\ r[1].type = ESPHOME_MSG_HELLO_RESPONSE
    /\ r[2].type = ESPHOME_MSG_CONNECT_RESPONSE
    /\ nStored = 1
    /\ <<1, c>> \in heard
    /\ 1 \in flushedIds
    /\ \A t \in FlushCallers : pc[t] \notin FlushPcs

\* C6: a session that got HelloResponse and ConnectResponse and subscribed
\* received HelloResponse 1.12 and ConnectResponse(invalid_password = false),
\* is authenticated and subscribed, and one enqueue followed by a flush sent
\* it exactly one batch frame holding exactly that one advertisement.
C6_EndToEnd ==
    \A i \in Slots : E2EDone(i) =>
        LET c == clients[i].fd
            r == Replies(wire, c)
            a == AdvFrames(wire, c) IN
        /\ r[1].body = [api_version_major |-> 1, api_version_minor |-> 12]
        /\ r[2].body = [invalid_password |-> FALSE]
        /\ clients[i].authenticated
        /\ clients[i].subscribed_ble
        /\ Len(a) = 1
        /\ a[1].body = <<1>>

C6_Witness ==
    \E i \in Slots : E2EDone(i) /\ Len(AdvFrames(wire, clients[i].fd)) = 1

(* ---------------- C7 ---------------- *)
\* the connections that hold a slot
Live == {clients[i].fd : i \in {j \in Slots : clients[j].fd >= 0}}

\* the listen thread's step that closes the connection it accepted
RejectStep == lpc = "l_lock" /\ lpc' = "l_accept"

\* C7: at most 2 sessions are live, a live connection holds exactly one
\* slot, a connection closed without a slot never gets one, and the step
\* that rejects a connection is taken only with every slot occupied, closes
\* the connection at once and leaves the slots and the connection threads
\* as they were.
C7_RegistryCapacity ==
    /\ [](/\ Cardinality(assigned \ closed) <= ESPHOME_MAX_CLIENTS
          /\ \A c \in assigned \ closed :
                Cardinality({i \in Slots : clients[i].fd = c}) = 1
          /\ Live \subseteq assigned
          /\ \A i \in Slots : cpc[i] # "none" => clients[i].fd \in assigned)
    /\ [][RejectStep =>
            /\ \A i \in Slots : clients[i].fd >= 0
            /\ l_fd \in closed'
            /\ l_fd \notin assigned'
            /\ clients' = clients
            /\ cpc' = cpc
            /\ c_reply' = c_reply
            /\ wire' = wire]_vars

\* a third connection was closed while two sessions are live
C7_Witness ==
    /\ closed \ assigned # {}
    /\ \A i \in Slots : clients[i].fd >= 0
    /\ lpc = "l_accept"

C9_BatchGuardFreeWhileSending ==
    \A t \in FlushCallers : pc[t] \in {"f_send", "f_write"} => batch_mutex # t

(* ---------------- C10 ---------------- *)
\* C10: the registry guard is not held by a thread that is in a socket write.
C10_RegistryGuardFreeWhileSending ==
    /\ \A t \in FlushCallers : pc[t] = "f_write" => clients_mutex # t
    /\ \A i \in Slots : cpc[i] = "c_write" => clients_mutex # ClientThread(i)

\* the threads inside the socket write of send_message (line 150) for the
\* session of slot i
Writers(i) ==
    {t \in FlushCallers : pc[t] = "f_write" /\ fl_i[t] = i}
        \cup {t \in {ClientThread(i)} : cpc[i] = "c_write"}

\* C11: sends to the same session are mutually exclusive: at most one thread,
\* the session's own with a reply or a caller of flush with a broadcast, is
\* inside the socket write for that session, and it holds the session's send
\* guard
C11_SendsMutuallyExclusive ==
    \A i \in Slots :
        /\ Cardinality(Writers(i)) <= 1
        /\ \A t \in Writers(i) : send_mutex[i] = t

\* a reply waits for the send guard while a broadcast is being written to
\* the same session
C11_Witness ==
    \E i \in Slots :
        /\ cpc[i] = "c_send"
        /\ \E t \in FlushCallers : pc[t] = "f_write" /\ fl_i[t] = i
        /\ ~Free(send_mutex[i])

(* ---------------- C12 ---------------- *)
\* the call of dispatch_message that frame f is due
DispatchOf(f) == Dispatched(f.type, U32Of(Len(f.payload)), f.payload)

\* the frames dispatched to a handler that has not yet returned
InHandler(i) == IF cpc[i] \in {"c_send", "c_write"} THEN 1 ELSE 0

\* C12: for a peer that sends valid frames, each fitting the receive buffer,
\* however recv cuts the bytes: the calls of dispatch_message are those
\* frames in order, each once, with its type and payload; the bytes not yet
\* removed from the buffer and those still to come are the encoding of the
\* frames not yet handled, so that nothing is consumed while a frame is
\* incomplete and each dispatch removes exactly the frame's total size; and
\* the thread goes back to recv only when no whole frame is left
C12_Reassembly ==
    \A c \in DOMAIN script :
        script[c].valid =>
            LET fs == script[c].frames
                k == Len(inbox[c])
            IN /\ k <= Len(fs)
               /\ \A j \in 1 .. k : inbox[c][j] = DispatchOf(fs[j])
               /\ \A i \in Slots :
                     clients[i].fd = c =>
                        /\ recv_pos[i] = Len(recv_buffer[i])
                        /\ recv_buffer[i] \o stream[c]
                              = Encoding(SubSeq(fs, k + 1 - InHandler(i), Len(fs)))
                        /\ cpc[i] = "c_recv" => ~FrameReady(recv_buffer[i], recv_pos[i])
                        /\ cpc[i] = "c_recv" /\ stream[c] = <<>> => k = Len(fs)

\* a ping and then the largest frame that fits, which no single recv could
\* deliver with it, have both been dispatched
C12_Witness ==
    \E i \in Slots :
        /\ clients[i].fd \in DOMAIN script
        /\ script[clients[i].fd].valid
        /\ cpc[i] = "c_recv"
        /\ recv_pos[i] = 0
        /\ inbox[clients[i].fd] = <<DispatchOf(PingFrame), DispatchOf(BigFrame)>>

(* ---------------- C13 ---------------- *)
\* C13: the valid length of every session's receive buffer is at most the
\* buffer's size, and the removal of a dispatched frame never takes more
\* than the buffer holds: recv_pos stays between 0 and RECV_BUFFER_SIZE and
\* is the number of bytes kept
C13_RecvPosWithinBuffer ==
    \A i \in Slots :
        /\ recv_pos[i] >= 0
        /\ recv_pos[i] <= RECV_BUFFER_SIZE
        /\ recv_pos[i] = Len(recv_buffer[i])

\* after a frame was dispatched and removed, the buffer is full
C13_Witness ==
    \E i \in Slots :
        /\ clients[i].fd \in DOMAIN inbox
        /\ Len(inbox[clients[i].fd]) >= 1
        /\ recv_pos[i] = RECV_BUFFER_SIZE

(* ---------------- C14 ---------------- *)
\* the header at the head of buf declares a frame larger than the receive
\* buffer
OversizeHead(buf) ==
    LET h == esphome_decode_frame_header(buf) IN
    h.header_len # 0 /\ U32Above(total_len(h), RECV_BUFFER_SIZE)

\* C14: a frame whose declared length makes the total frame exceed the
\* receive buffer is fatal to its connection: it is never dispatched, and the
\* session's thread does not go back to waiting in recv for the rest of it
C14_OversizeIsFatal ==
    \A i \in Slots :
        /\ cpc[i] = "c_recv" /\ clients[i].fd >= 0 => ~OversizeHead(recv_buffer[i])
        /\ clients[i].fd \in DOMAIN inbox /\ OversizeHead(recv_buffer[i])
              => inbox[clients[i].fd] = <<>>

(* ---------------- C15 ---------------- *)
\* the response type the dispatcher owes a frame of type msg_type, 0 for none
ExpectedResponse(msg_type) ==
    CASE msg_type = ESPHOME_MSG_HELLO_REQUEST -> ESPHOME_MSG_HELLO_RESPONSE
      [] msg_type = ESPHOME_MSG_CONNECT_REQUEST -> ESPHOME_MSG_CONNECT_RESPONSE
      [] msg_type = ESPHOME_MSG_DEVICE_INFO_REQUEST -> ESPHOME_MSG_DEVICE_INFO_RESPONSE
      [] msg_type = ESPHOME_MSG_LIST_ENTITIES_REQUEST -> ESPHOME_MSG_LIST_ENTITIES_DONE_RESPONSE
      [] msg_type = ESPHOME_MSG_PING_REQUEST -> ESPHOME_MSG_PING_RESPONSE
      [] OTHER -> 0

\* the types of the frames of sequence q
TypesOf(q) == [j \in 1 .. Len(q) |-> q[j].type]

\* the responses owed to the frames dispatched so far on connection c
Owed(c) ==
    SelectSeq([j \in 1 .. Len(inbox[c]) |-> ExpectedResponse(inbox[c][j].type)],
              LAMBDA x : x # 0)

\* the threads of connection c that are inside a handler's send_message
Replying(c) == {i \in Slots : clients[i].fd = c /\ InHandler(i) = 1}

\* C15: every inbound frame gets at most one outbound frame, chosen by its
\* type alone: the replies written on a connection are, in order, the
\* responses owed to the frames dispatched on it (hello, connect, device info,
\* list entities and ping each their response, every other type nothing),
\* but for the one a handler is about to write; and a frame that is owed
\* nothing leaves the thread in its receive loop
C15_OneReplyByType ==
    \A c \in DOMAIN inbox \cap DOMAIN wire :
        LET got == TypesOf(Replies(wire, c))
            owed == Owed(c)
        IN /\ got = SubSeq(owed, 1, Len(owed) - Cardinality(Replying(c)))
           /\ \A i \in Replying(c) :
                 /\ owed # <<>>
                 /\ c_reply[i].type = owed[Len(owed)]
                 /\ ExpectedResponse(inbox[c][Len(inbox[c])].type) # 0

\* a frame of an unknown type and a ping were dispatched, and the one reply
\* is the ping's
C15_Witness ==
    \E c \in DOMAIN inbox \cap DOMAIN wire :
        /\ TypesOf(inbox[c]) = <<UnknownType, ESPHOME_MSG_PING_REQUEST>>
        /\ TypesOf(Replies(wire, c)) = <<ESPHOME_MSG_PING_RESPONSE>>

(* ---------------- C16 ---------------- *)
\* this step dispatches a frame of type msg_type to the session of slot i
DispatchStep(i, msg_type) ==
    /\ clients[i].fd \in DOMAIN inbox
    /\ Len(inbox'[clients[i].fd]) = Len(inbox[clients[i].fd]) + 1
    /\ inbox'[clients[i].fd][Len(inbox'[clients[i].fd])].type = msg_type

\* C16: authenticated is false when a session is created, becomes true
\* exactly when a ConnectRequest is dispatched to the session, is changed by
\* no other message, and goes back to false only when the session is closed
C16_AuthenticationLifecycle ==
    [][\A i \in Slots :
          /\ clients[i].fd < 0 /\ clients'[i].fd >= 0 => ~clients'[i].authenticated
          /\ DispatchStep(i, ESPHOME_MSG_CONNECT_REQUEST) => clients'[i].authenticated
          /\ ~clients[i].authenticated /\ clients'[i].authenticated
                => DispatchStep(i, ESPHOME_MSG_CONNECT_REQUEST)
          /\ clients[i].authenticated /\ ~clients'[i].authenticated
                => clients[i].fd >= 0 /\ clients'[i].fd < 0]_vars

\* a session that was authenticated by a ConnectRequest is still so after
\* another frame
C16_Witness ==
    \E i \in Slots :
        /\ clients[i].fd \in DOMAIN inbox
        /\ clients[i].authenticated
        /\ TypesOf(inbox[clients[i].fd])
              = <<ESPHOME_MSG_CONNECT_REQUEST, ESPHOME_MSG_HELLO_REQUEST>>

(* ---------------- C17 ---------------- *)
\* the session that differs from cl only in authenticated
Twin(cl) == [cl EXCEPT !.authenticated = ~cl.authenticated]

\* C17: no handler and no broadcast looks at authenticated: when a frame is
\* dispatched to a session, the reply and the new value of subscribed_ble
\* are those the same frame gives the session that differs only in
\* authenticated, and a flush sends to a slot exactly when it would send to
\* that other session
C17_NotGatedOnAuthentication ==
    [][/\ \A i \in Slots :
             (clients[i].fd \in DOMAIN inbox
                /\ Len(inbox'[clients[i].fd]) = Len(inbox[clients[i].fd]) + 1) =>
                LET d == inbox'[clients[i].fd][Len(inbox'[clients[i].fd])]
                    m == [type |-> d.type, ok |-> DecodesOk(d.payload)]
                IN /\ clients'[i].subscribed_ble
                         = Handled(Twin(clients[i]), m).subscribed_ble
                   /\ (IF cpc'[i] = "c_send" THEN c_reply'[i] ELSE NoReply)
                         = Reply(d.type)
       /\ \A t \in FlushCallers :
             VisitStep(t) =>
                ((pc'[t] = "f_send") <=> Subscribed(Twin(clients[fl_i[t]])))]_vars

\* a session that never sent a ConnectRequest has subscribed and has been
\* sent a batch
C17_Witness ==
    \E i \in Slots :
        /\ clients[i].fd \in DOMAIN wire
        /\ ~clients[i].authenticated
        /\ clients[i].subscribed_ble
        /\ \A j \in 1 .. Len(inbox[clients[i].fd]) :
              inbox[clients[i].fd][j].type # ESPHOME_MSG_CONNECT_REQUEST
        /\ AdvFrames(wire, clients[i].fd) # <<>>

(* ---------------- C18 ---------------- *)
\* a DisconnectRequest was dispatched on connection c
DisconnectAsked(c) ==
    \E j \in 1 .. Len(inbox[c]) : inbox[c][j].type = ESPHOME_MSG_DISCONNECT_REQUEST

\* C18: a DisconnectRequest marks the session for close: it gets no response,
\* and the session's thread, rather than go back to recv and wait for the
\* peer, leaves its loop to close the connection and free the slot
C18_DisconnectCloses ==
    \A i \in Slots :
        (clients[i].fd \in DOMAIN inbox /\ DisconnectAsked(clients[i].fd)) =>
            /\ cpc[i] \notin {"c_recv", "c_parse", "c_send", "c_write"}
            /\ ExpectedResponse(ESPHOME_MSG_DISCONNECT_REQUEST) = 0

(* ---------------- C19 ---------------- *)
\* C19: a send that fails or is partial, of a reply or of a batch, is fatal
\* to its session: no frame is written to the connection after it, and the
\* session's thread does not go on receiving and replying
C19_FailedSendIsFatal ==
    \A i \in Slots :
        clients[i].fd \in DOMAIN wire =>
            \A j \in 1 .. Len(wire[clients[i].fd]) :
                wire[clients[i].fd][j].res = "fail" =>
                    /\ j = Len(wire[clients[i].fd])
                    /\ cpc[i] \notin {"c_recv", "c_parse", "c_send", "c_write"}

(* ---------------- C20 ---------------- *)
\* the frame of the batch that flush caller t is sending was written to
\* connection c with result res
BatchFrameOn(t, c, res) ==
    \E k \in 1 .. Len(AdvFrames(wire, c)) :
        /\ AdvFrames(wire, c)[k].body = fl_buf[t]
        /\ AdvFrames(wire, c)[k].res \in res

\* a send of the flush that t is in has failed
FailedInFlush(t) ==
    /\ pc[t] \in FlushPcs
    /\ fl_buf[t] # <<>>
    /\ \E c \in DOMAIN wire : BatchFrameOn(t, c, {"fail"})

\* C20: a send that fails during a broadcast does not end the broadcast: the
\* loop goes on to the next slot, at the end of the loop every live
\* subscribed session has had its send attempt, and the flush ends with the
\* batch cleared and both guards released
C20_FailureDoesNotStopBroadcast ==
    /\ [](\A t \in FlushCallers :
            (FailedInFlush(t) /\ pc[t] = "f_iter" /\ fl_i[t] = ESPHOME_MAX_CLIENTS) =>
                \A j \in Slots :
                    Subscribed(clients[j]) => BatchFrameOn(t, clients[j].fd, SendResults))
    /\ [][\A t \in FlushCallers :
            /\ (pc[t] = "f_write" /\ pc'[t] # pc[t]) =>
                  /\ pc'[t] = "f_iter"
                  /\ fl_i'[t] = fl_i[t] + 1
                  /\ fl_buf'[t] = fl_buf[t]
                  /\ send_mutex'[fl_i[t]] = NoThread
            /\ (FailedInFlush(t) /\ pc[t] = "f_iter" /\ fl_i[t] = ESPHOME_MAX_CLIENTS
                  /\ pc'[t] # pc[t]) =>
                  /\ count' = 0
                  /\ batch_mutex' = NoThread
                  /\ clients_mutex' = NoThread
                  /\ pc'[t] \notin FlushPcs]_vars

\* the send to the first session failed, the second session got the same
\* batch, and the flush is over
C20_Witness ==
    /\ \A t \in FlushCallers : pc[t] \notin FlushPcs
    /\ count = 0
    /\ Free(batch_mutex) /\ Free(clients_mutex)
    /\ \A i \in Slots : clients[i].fd = i + 1
    /\ Len(AdvFrames(wire, 1)) = 1 /\ Len(AdvFrames(wire, 2)) = 1
    /\ AdvFrames(wire, 1)[1].res = "fail"
    /\ AdvFrames(wire, 2)[1].res = "ok"
    /\ AdvFrames(wire, 1)[1].body = AdvFrames(wire, 2)[1].body

(* ---------------- C21 ---------------- *)
\* the subscribe request whose payload does not decode
MalformedSubscribe ==
    [type |-> ESPHOME_MSG_SUBSCRIBE_BLUETOOTH_LE_ADVERTISEMENTS_REQUEST,
     payload |-> MalformedPayload]

\* C21: a subscribe request whose payload fails to decode changes nothing but
\* the buffer: the session keeps its connection and its subscribed_ble, no
\* frame is sent, the thread stays in its loop, and the frame's bytes, no
\* more and no less, are removed, so that the next frame is at the head of
\* the buffer
C21_DecodeErrorDropsOneMessage ==
    [][\A i \in Slots :
          (clients[i].fd \in DOMAIN inbox
             /\ Len(inbox'[clients[i].fd]) = Len(inbox[clients[i].fd]) + 1
             /\ inbox'[clients[i].fd][Len(inbox'[clients[i].fd])]
                   = DispatchOf(MalformedSubscribe)) =>
             /\ clients'[i] = clients[i]
             /\ wire' = wire
             /\ c_reply' = c_reply
             /\ cpc'[i] = "c_parse"
             /\ recv_buffer[i] = FrameBytes(MalformedSubscribe) \o recv_buffer'[i]
             /\ recv_pos'[i] = recv_pos[i] - Len(FrameBytes(MalformedSubscribe))]_vars

\* after the subscribe request that did not decode, a ping that was in the
\* buffer behind it was dispatched and answered, on a session still open and
\* not subscribed
C21_Witness ==
    \E i \in Slots :
        /\ clients[i].fd \in DOMAIN inbox
        /\ ~clients[i].subscribed_ble
        /\ inbox[clients[i].fd] = <<DispatchOf(MalformedSubscribe), DispatchOf(PingFrame)>>
        /\ TypesOf(Replies(wire, clients[i].fd)) = <<ESPHOME_MSG_PING_RESPONSE>>

(* ---------------- C29 ---------------- *)
\* the responses owed to the first n frames of q
OwedTo(q, n) ==
    SelectSeq([j \in 1 .. n |-> ExpectedResponse(q[j].type)], LAMBDA x : x # 0)

\* C29: within a session replies go out in the order of their requests: the
\* frames in the buffer are dispatched front to back, and when a frame is
\* dispatched the replies to all frames before it are on the wire already;
\* only the reply to the frame dispatched last may still be in its handler
C29_RepliesInRequestOrder ==
    \A c \in DOMAIN inbox \cap DOMAIN wire :
        LET k == Len(inbox[c])
            got == TypesOf(Replies(wire, c))
        IN /\ k > 0 =>
                 \/ got = OwedTo(inbox[c], k)
                 \/ /\ got = OwedTo(inbox[c], k - 1)
                    /\ Replying(c) # {}
           /\ k = 0 => got = <<>>
           /\ script[c].valid =>
                 \A j \in 1 .. k : inbox[c][j] = DispatchOf(script[c].frames[j])

\* one read brought a hello and a ping whole; the hello is dispatched and its
\* reply is being written, with both frames still in the buffer
C29_Witness ==
    \E i \in Slots :
        /\ clients[i].fd \in DOMAIN inbox
        /\ cpc[i] = "c_write"
        /\ Len(inbox[clients[i].fd]) = 1
        /\ recv_buffer[i]
              = FrameBytes([type |-> ESPHOME_MSG_HELLO_REQUEST, payload |-> <<10, 1, 65>>])
                   \o FrameBytes(PingFrame)

(* ---------------- C30 ---------------- *)
\* slot i is in the state client_init leaves it in, but for its fd
Clean(cls, pos, i) ==
    /\ ~cls[i].authenticated
    /\ ~cls[i].subscribed_ble
    /\ pos[i] = 0

\* the session on connection c has sent a subscribe request that decoded
HasSubscribed(c) ==
    \E j \in 1 .. Len(inbox[c]) :
        /\ inbox[c][j].type = ESPHOME_MSG_SUBSCRIBE_BLUETOOTH_LE_ADVERTISEMENTS_REQUEST
        /\ DecodesOk(inbox[c][j].payload)

\* C30: a free slot is clean (no connection, not authenticated, not
\* subscribed, receive length 0); the release of a slot leaves it clean and a
\* session starts in a clean slot; so a flush sends to a session only if that
\* session itself has subscribed, whoever held its slot before
C30_FreeSlotsAreClean ==
    /\ [](\A i \in Slots : clients[i].fd < 0 => Clean(clients, recv_pos, i))
    /\ [](\A t \in FlushCallers :
            (pc[t] \in {"f_send", "f_write"} /\ clients[fl_i[t]].fd \in DOMAIN inbox)
                => HasSubscribed(clients[fl_i[t]].fd))
    /\ [][\A i \in Slots :
            clients'[i].fd # clients[i].fd => Clean(clients', recv_pos', i)]_vars

\* the second connection has the slot the first one, subscribed, had held;
\* it has not subscribed, and a flush has just passed its slot without a send
C30_Witness ==
    /\ clients[0].fd = 2
    /\ 1 \in closed
    /\ Clean(clients, recv_pos, 0)
    /\ wire[2] = <<>>
    /\ \E t \in FlushCallers : pc[t] = "f_iter" /\ fl_i[t] = 1

(* ---------------- C23 ---------------- *)
\* this step is one of the thread of slot i: a frame dispatched, a reply
\* sent, the end of its connection, the release of its slot
SessionStep(i) ==
    /\ cpc[i] # "none"
    /\ \/ cpc'[i] # cpc[i]
       \/ clients'[i] # clients[i]
       \/ c_reply'[i] # c_reply[i]

\* C23: sessions are isolated: whatever the thread of one session does, a
\* dispatch, the end of its connection or the release of its slot, the
\* other slot (fd, authenticated, subscribed_ble, receive buffer, position of
\* its thread) and the batch are as before
C23_SessionIsolation ==
    [][\A i \in Slots :
          SessionStep(i) =>
             /\ count' = count
             /\ adverts' = adverts
             /\ \A j \in Slots \ {i} :
                   /\ clients'[j] = clients[j]
                   /\ recv_pos'[j] = recv_pos[j]
                   /\ recv_buffer'[j] = recv_buffer[j]
                   /\ cpc'[j] = cpc[j]
                   /\ c_reply'[j] = c_reply[j]]_vars

\* the first session was released while the second, subscribed, stays, with
\* an advertisement in the batch
C23_Witness ==
    /\ clients[0].fd < 0
    /\ 1 \in closed
    /\ clients[1].fd = 2
    /\ clients[1].subscribed_ble
    /\ cpc[1] = "c_recv"
    /\ count > 0

(* ---------------- C28 ---------------- *)
\* the next step of thread t reads or writes ble_batch.count, the entries or
\* last_flush: the store of an enqueue (lines 767-782), its test of count
\* after the unlock (line 787), the timer's reading of last_flush (lines
\* 522-523), the clearing at the end of a flush (lines 507-508)
AccessesBatch(t) ==
    \/ pc[t] \in {"e_store", "e_post", "t_eval"}
    \/ pc[t] = "f_iter" /\ fl_i[t] >= ESPHOME_MAX_CLIENTS

\* C28: the batch's count and entries and last_flush are read and written
\* only by a thread that holds the batch guard
C28_BatchStateUnderGuard ==
    \A t \in FlushCallers : AccessesBatch(t) => batch_mutex = t

(* ---------------- C22 ---------------- *)
\* the advertisements stored when the store past the end of the batch has
\* happened: a first full batch, a second one, and the one stored at
\* advertisements[ESPHOME_MAX_ADV_BATCH]
StoredAtOverrun == 2 * ESPHOME_MAX_ADV_BATCH + 1

\* the batch queue right after the store past the end of the batch (a state
\* SpecQueue reaches, with connection 1 observed): the first batch was sent
\* to the subscribed session, the second one is in the batch, count holds
\* the value the overrun left there, and both callers are at the test of
\* line 787
InitDrop ==
    /\ running = TRUE
    /\ listen_fd = 0
    /\ spc = "s_idle"
    /\ s_i = 0
    /\ mac = SampleMac
    /\ address = mac_to_uint64(SampleMac)
    /\ clients_mutex = NoThread
    /\ send_mutex = [i \in Slots |-> NoThread]
    /\ batch_mutex = NoThread
    /\ count = ESPHOME_MAX_MESSAGE_SIZE
    /\ adverts = [k \in 1 .. (ESPHOME_MAX_ADV_BATCH + 1) |->
                     IF k <= ESPHOME_MAX_ADV_BATCH
                     THEN ESPHOME_MAX_ADV_BATCH + k ELSE 0]
    /\ now = StartMs
    /\ last_flush = clock_gettime(StartMs)
    /\ pc = [t \in FlushCallers |-> IF t = "timer" THEN "t_loop" ELSE "e_post"]
    /\ fl_i = [t \in FlushCallers |-> 0]
    /\ fl_buf = [t \in FlushCallers |-> <<>>]
    /\ fl_ret = [t \in FlushCallers |-> "none"]
    /\ wake = 0
    /\ t_now = clock_gettime(StartMs)
    /\ t_last = clock_gettime(StartMs)
    /\ lpc = "l_accept"
    /\ l_fd = -1
    /\ l_slot = -1
    /\ c_reply = [i \in Slots |-> NoReply]
    /\ closed = {}
    /\ nextAdv = StoredAtOverrun
    /\ nStored = StoredAtOverrun
    /\ first_ms = StartMs
    /\ heard = {<<k, 1>> : k \in 1 .. StoredAtOverrun}
    /\ flushedIds = 1 .. ESPHOME_MAX_ADV_BATCH
    /\ dupFlushed = {}
    /\ dropped = {}
    /\ maxIdx = ESPHOME_MAX_ADV_BATCH
    /\ EmptyBuffers
    /\ clients = [i \in Slots |-> IF i = 0
                     THEN [fd |-> 1, authenticated |-> TRUE,
                           subscribed_ble |-> TRUE, thread_running |-> TRUE]
                     ELSE FreeClient]
    /\ cpc = [i \in Slots |-> IF i = 0 THEN "c_recv" ELSE "none"]
    /\ nextConn = 1
    /\ assigned = {1}
    /\ wire = [c \in {1} |->
                 <<Frame(ESPHOME_MSG_BLUETOOTH_LE_RAW_ADVERTISEMENTS_RESPONSE,
                         [k \in 1 .. ESPHOME_MAX_ADV_BATCH |-> k], "ok")>>]
    /\ stream = <<>>
    /\ script = <<>>
    /\ inbox = <<>>

NextDrop ==
    \/ \E p \in Producers : Enqueue(p, MaxAdvertsDrop)
    \/ \E t \in FlushCallers : Flush(t)
    \/ Timer
    \/ Tick(MaxTicksDrop)

SpecDrop == InitDrop /\ [][NextDrop]_vars

\* this step is the return of thread t from a flush whose encoding failed
\* (lines 487-490)
EncodeFailStep(t) ==
    /\ pc[t] = "f_lock"
    /\ pc'[t] # pc[t]
    /\ count > 0
    /\ esphome_encode_ble_advertisements(ESPHOME_MAX_MESSAGE_SIZE, count) = 0

InitFifo ==
    /\ InitServer
    /\ EmptyBuffers
    /\ clients = [i \in Slots |-> IF i = 0
                     THEN [fd |-> 1, authenticated |-> TRUE,
                           subscribed_ble |-> TRUE, thread_running |-> TRUE]
                     ELSE FreeClient]
    /\ cpc = [i \in Slots |-> IF i = 0 THEN "c_recv" ELSE "none"]
    /\ nextConn = 1
    /\ assigned = {1}
    /\ wire = [c \in {1} |-> <<>>]
    /\ stream = <<>>
    /\ script = <<>>
    /\ inbox = <<>>

NextFifo ==
    \/ Enqueue("p1", MaxAdvertsFifo)
    \/ \E t \in FlushCallers : Flush(t)
    \/ Timer
    \/ Tick(MaxTicksFifo)

SpecFifo == InitFifo /\ [][NextFifo]_vars

\* the advertisements of the batch frames fs, frame after frame
RECURSIVE Concat(_)
Concat(fs) == IF fs = <<>> THEN <<>> ELSE Head(fs).body \o Concat(Tail(fs))

\* the advertisements flushed so far, in the order they were sent
Flushed == Concat(AdvFrames(wire, 1))

\* the advertisements in the order the enqueue calls stored them
Stored == [k \in 1 .. nStored |-> k]

\* a flush has written the batch it holds and has not cleared it yet
Written == \E t \in FlushCallers : pc[t] = "f_iter" /\ fl_i[t] > 0

\* C26: with one producer the batches flushed so far, one after the other,
\* followed by the batch not yet flushed, are the advertisements in the
\* order they were stored
C26_FifoAcrossFlushes ==
    IF Written
    THEN Flushed = Stored
    ELSE Flushed \o Entries(adverts, count) = Stored

\* a full batch was flushed by the producer, a later batch by another flush
C26_Witness ==
    /\ Len(AdvFrames(wire, 1)) >= 2
    /\ Len(AdvFrames(wire, 1)[1].body) = ESPHOME_MAX_ADV_BATCH
    /\ Len(Flushed) > ESPHOME_MAX_ADV_BATCH

(* ---------------- C27 ---------------- *)
\* the flush thread has a step to take that does not wait for the clock
TimerBusy == pc["timer"] # "t_sleep" \/ now >= wake

\* the flush thread is scheduled promptly: what it does between two sleeps
\* takes less than one step of the clock
TickPrompt == ~TimerBusy /\ Tick(MaxTicksTimer)

NextTimer ==
    \/ Enqueue("p1", MaxAdvertsTimer)
    \/ \E t \in FlushCallers : Flush(t)
    \/ Timer
    \/ TickPrompt

\* the clock runs, the flush thread and the producer are scheduled fairly
\* (a thread in pthread_mutex_lock gets a mutex that is released again and
\* again)
SpecTimer ==
    /\ InitFifo
    /\ [][NextTimer]_vars
    /\ WF_vars(TickPrompt)
    /\ SF_vars(Flush("timer") \/ Timer)
    /\ SF_vars(Enqueue("p1", MaxAdvertsTimer) \/ Flush("p1"))

\* the last clock value of the model
Horizon == StartMs + MaxTicksTimer * TickMs

\* the clock can still advance by two flush intervals
ClockHasRoom == now + 2 * BATCH_FLUSH_INTERVAL_MS <= Horizon

\* this step is the return of thread t from a flush that found the batch empty
\* (lines 476-479)
EmptyFlushStep(t) ==
    /\ pc[t] = "f_lock"
    /\ pc'[t] # pc[t]
    /\ count = 0

\* C27: every advertisement in the batch is flushed, and the batch is empty
\* again, with no further enqueue needed, as long as the clock can advance;
\* a flush that finds the batch empty returns without sending and without
\* setting last_flush
C27_TimerFlushesEventually ==
    /\ \A k \in 1 .. MaxAdvertsTimer :
          (k \in Ids(adverts) /\ ClockHasRoom) ~> (k \in flushedIds /\ count = 0)
    /\ [][\A t \in FlushCallers :
            EmptyFlushStep(t) =>
               /\ wire' = wire
               /\ last_flush' = last_flush
               /\ count' = 0
               /\ pc'[t] \notin FlushPcs
               /\ batch_mutex' = NoThread]_vars

\* the flush thread is sending a batch that was below capacity, at least one
\* interval after the construction
C27_Witness ==
    /\ pc["timer"] = "f_write"
    /\ fl_buf["timer"] # <<>>
    /\ Len(fl_buf["timer"]) < ESPHOME_MAX_ADV_BATCH
    /\ now >= StartMs + BATCH_FLUSH_INTERVAL_MS

(* ---------------- C25 ---------------- *)
\* the bytes of the addresses passed: the six bytes of the sample
\* address and 0
MacBytes == {0} \cup Range(SampleMac)

\* the server after construction, with any address of these bytes passed
\* to esphome_api_queue_ble_advert
InitMac ==
    /\ InitAnyMac
    /\ mac \in [1 .. 6 -> MacBytes]
    /\ EmptyBuffers
    /\ clients = [i \in Slots |-> FreeClient]
    /\ cpc = [i \in Slots |-> "none"]
    /\ nextConn = 0
    /\ assigned = {}
    /\ wire = <<>>
    /\ stream = <<>>
    /\ script = <<>>
    /\ inbox = <<>>

NextMac == Enqueue("p1", MaxAdvertsMac)

SpecMac == InitMac /\ [][NextMac]_vars

\* the 16-bit words of a uint64_t, the most significant first
Words(x) == [w \in 1 .. 4 |-> x[2 * w - 1] * 256 + x[2 * w]]

StopBegin ==
    /\ spc = "s_idle"
    /\ running' = FALSE
    /\ spc' = "s_listener"
    /\ UNCHANGED <<clients, mutexVars, batchVars, now, pc, flushVars, timerVars,
                   listenVars, connVars, clientVars, wire, histVars, recvVars,
                   macVars, s_i, listen_fd>>

\* lines 713-717: shutdown and close of the listening socket
StopListener ==
    /\ spc = "s_listener"
    /\ listen_fd' = -1
    /\ spc' = "s_join_listen"
    /\ UNCHANGED <<running, clients, mutexVars, batchVars, now, pc, flushVars,
                   timerVars, listenVars, connVars, clientVars, wire, histVars,
                   recvVars, macVars, s_i>>

\* line 720: pthread_join(listen_thread) returns when that thread has ended
StopJoinListen ==
    /\ spc = "s_join_listen"
    /\ lpc = "l_done"
    /\ spc' = "s_join_flush"
    /\ UNCHANGED <<running, clients, mutexVars, batchVars, now, pc, flushVars,
                   timerVars, listenVars, connVars, clientVars, wire, histVars,
                   recvVars, macVars, s_i, listen_fd>>

\* line 721: pthread_join(flush_thread)
StopJoinFlush ==
    /\ spc = "s_join_flush"
    /\ pc["timer"] = "t_done"
    /\ spc' = "s_test"
    /\ s_i' = 0
    /\ UNCHANGED <<running, clients, mutexVars, batchVars, now, pc, flushVars,
                   timerVars, listenVars, connVars, clientVars, wire, histVars,
                   recvVars, macVars, listen_fd>>

\* lines 724-725: the loop test and the test of clients[i].thread_running
StopTest ==
    /\ spc = "s_test"
    /\ IF s_i >= ESPHOME_MAX_CLIENTS
       THEN spc' = "s_close" /\ UNCHANGED s_i
       ELSE IF clients[s_i].thread_running
       THEN spc' = "s_join_client" /\ UNCHANGED s_i
       ELSE s_i' = s_i + 1 /\ UNCHANGED spc
    /\ UNCHANGED <<running, clients, mutexVars, batchVars, now, pc, flushVars,
                   timerVars, listenVars, connVars, clientVars, wire, histVars,
                   recvVars, macVars, listen_fd>>

\* line 726: pthread_join(clients[i].thread) returns when that thread has
\* ended
StopJoinClient ==
    /\ spc = "s_join_client"
    /\ cpc[s_i] = "none"
    /\ s_i' = s_i + 1
    /\ spc' = "s_test"
    /\ UNCHANGED <<running, clients, mutexVars, batchVars, now, pc, flushVars,
                   timerVars, listenVars, connVars, clientVars, wire, histVars,
                   recvVars, macVars, listen_fd>>

\* lines 731-735: client_close of every slot under clients_mutex
StopCloseAll ==
    /\ spc = "s_close"
    /\ Free(clients_mutex)
    /\ closed' = closed \cup UNION {ClosedBy(clients[i]) : i \in Slots}
    /\ clients' = [i \in Slots |-> client_close(clients[i])]
    /\ recv_pos' = [i \in Slots |-> 0]
    /\ recv_buffer' = [i \in Slots |-> <<>>]
    /\ spc' = "s_done"
    /\ UNCHANGED <<running, mutexVars, batchVars, now, pc, flushVars, timerVars,
                   listenVars, assigned, clientVars, wire, histVars, stream,
                   script, inbox, macVars, s_i, listen_fd>>

Stop ==
    \/ StopBegin
    \/ StopListener
    \/ StopJoinListen
    \/ StopJoinFlush
    \/ StopTest
    \/ StopJoinClient
    \/ StopCloseAll

\* flush_thread_func line 516: the loop test finds running false; the
\* thread ends
TimerExit ==
    /\ pc["timer"] = "t_loop"
    /\ ~running
    /\ pc' = [pc EXCEPT !["timer"] = "t_done"]
    /\ UNCHANGED <<running, clients, mutexVars, batchVars, now, flushVars,
                   timerVars, listenVars, connVars, clientVars, wire, histVars,
                   recvVars, macVars, stopVars>>

\* listen_thread_func lines 582-590 and 578: accept fails on the closed
\* listening socket, the loop test finds running false; the thread ends
ListenExit ==
    /\ lpc = "l_accept"
    /\ listen_fd < 0
    /\ ~running
    /\ lpc' = "l_done"
    /\ UNCHANGED <<running, clients, mutexVars, batchVars, now, pc, flushVars,
                   timerVars, l_fd, l_slot, nextConn, connVars, clientVars, wire,
                   histVars, recvVars, macVars, stopVars>>

(* ---------------- C24 ---------------- *)
\* the server with one session whose thread is in recv and whose peer
\* sends nothing further, but may close; esphome_api_stop is called at
\* any moment
NextStop ==
    \/ Stop
    \/ Enqueue("p1", MaxAdvertsStop)
    \/ \E t \in FlushCallers : Flush(t)
    \/ Timer
    \/ TimerExit
    \/ Tick(MaxTicksStop)
    \/ ListenExit
    \/ \E i \in Slots : ClientRecvEnd(i) \/ ClientCleanup(i)

\* every thread of the server is scheduled fairly and the clock runs; the
\* peer is under no obligation to close its connection
SpecStop ==
    /\ InitQueue
    /\ [][NextStop]_vars
    /\ WF_vars(Stop)
    /\ WF_vars(Tick(MaxTicksStop))
    /\ SF_vars(Flush("timer") \/ Timer \/ TimerExit)
    /\ SF_vars(Enqueue("p1", MaxAdvertsStop) \/ Flush("p1"))
    /\ WF_vars(ListenExit)
    /\ SF_vars(\E i \in Slots : ClientCleanup(i))

\* the clock can still advance by the flush thread's sleep
StopHasRoom == now + BATCH_FLUSH_INTERVAL_MS <= StartMs + MaxTicksStop * TickMs

\* C24: esphome_api_stop, once it has cleared running, returns, with every
\* slot free, whatever the state it was called in
C24_StopTerminates ==
    (spc = "s_listener" /\ StopHasRoom)
        ~> (spc = "s_done" /\ \A i \in Slots : clients[i].fd < 0)

====
